---- MODULE Spec2Model ----
(***************************************************************************)
(* Usage and cost engine of the meter tracker: calculateCostBreakdown and  *)
(* calculateStatistics of the multi-user server (the older single-user     *)
(* server.js has the same two functions, without the defaults for absent   *)
(* block 1-3 limits and rates).                                            *)
(*                                                                         *)
(* Numbers.  A JavaScript number x is represented by the integer x*Scale   *)
(* (exact fixed point); Scale is chosen so that every quotient the code    *)
(* forms (a total divided by a number of entries) is exact.  Counts        *)
(* (array lengths, numbers of days) are plain integers.  Binary rounding   *)
(* of IEEE doubles is not modelled.                                        *)
(*                                                                         *)
(* Settings.  A settings object maps a key to the number its stored string *)
(* encodes; a key that is absent (or stored as the empty string, which     *)
(* `||` treats alike) is outside the DOMAIN of the function.               *)
(*                                                                         *)
(* Dates.  A Date is built by `new Date(year, month, day)` at local        *)
(* midnight; its time value is kept in hours since the epoch instead of    *)
(* milliseconds, together with the local calendar day it was built from.   *)
(***************************************************************************)
EXTENDS Integers, Sequences, FiniteSets, TLC

\* ------------------------------------------------------------------ bounds
MaxReadings == 3
MaxValue == 2
MaxReadingDay == 1
MaxDay == 2
MaxUsage == 36
MaxYears == 2
MaxUsers == 2
MaxIds == 2
MaxForgots == 2
MaxLogins == 1
MaxResets == 2
MaxElapsed == 3
MaxRegistrations == 2

\* --------------------------------------------------------------- constants
DefaultLimit1 == 6
DefaultLimit2 == 15
DefaultLimit3 == 25
DefaultLimit4 == 35
DefaultRate == 0
DefaultBasic == 0
Infinity == 2147483647
NaN == -2147483647
HoursPerDay == 24
MonthsPerYear == 12
EpochYear == 1970
BaseYear == 2024
DefaultStartDay == 1
DefaultEndDay == 31
OneHour == 1
CharT == 84
CharSpace == 32

\* ----------------------------------------------------------------- numbers
RECURSIVE Gcd(_, _)
Gcd(a, b) == IF b = 0 THEN a ELSE Gcd(b, a % b)

RECURSIVE LcmUpTo(_)
LcmUpTo(n) == IF n <= 1 THEN 1 ELSE LET l == LcmUpTo(n - 1) IN (l * n) \div Gcd(l, n)

\* units per 1.0: every count of daily entries 1..MaxReadings-1 divides it
Scale == LcmUpTo(MaxReadings)

\* parseFloat of a stored string: the number a numeric string encodes, NaN
\* for a string that does not start with a number (kept as the value NaN)
parseFloat(v) == IF v = NaN THEN NaN ELSE v * Scale

\* product of two numbers (exact whenever one factor is a whole number)
Times(a, b) == IF a = NaN \/ b = NaN THEN NaN ELSE (a * b) \div Scale
Plus(a, b) == IF a = NaN \/ b = NaN THEN NaN ELSE a + b

\* Math.min / Math.max / Math.ceil, with IEEE Infinity and NaN as possible
\* operands
MathMin(a, b) ==
    IF a = NaN \/ b = NaN THEN NaN
    ELSE IF b = Infinity THEN a ELSE IF a = Infinity THEN b ELSE IF a < b THEN a ELSE b
MathMax(a, b) == IF a > b THEN a ELSE b
Minus(a, b) ==
    IF a = NaN \/ b = NaN THEN NaN ELSE IF a = Infinity THEN Infinity ELSE a - b
\* Math.ceil(a / b) for an integer quotient a / b with b > 0
MathCeilDiv(a, b) == -((-a) \div b)

Pow10(d) == IF d = 4 THEN 10000 ELSE IF d = 2 THEN 100 ELSE 1

\* Number.prototype.toFixed(digits): the decimal string, kept as the integer
\* count of 10^-digits units, rounded half away from zero
toFixed(x, digits) ==
    IF x = NaN THEN NaN
    ELSE IF x >= 0 THEN (2 * x * Pow10(digits) + Scale) \div (2 * Scale)
    ELSE -((2 * (-x) * Pow10(digits) + Scale) \div (2 * Scale))

\* ---------------------------------------------------------------- settings
\* settings.key || dflt
Setting(settings, key, dflt) == IF key \in DOMAIN settings THEN settings[key] ELSE dflt

waterBlocks(settings) ==
    << [limit |-> parseFloat(Setting(settings, "water_block_1_limit", DefaultLimit1)),
        rate  |-> parseFloat(Setting(settings, "water_block_1_rate", DefaultRate))],
       [limit |-> parseFloat(Setting(settings, "water_block_2_limit", DefaultLimit2)),
        rate  |-> parseFloat(Setting(settings, "water_block_2_rate", DefaultRate))],
       [limit |-> parseFloat(Setting(settings, "water_block_3_limit", DefaultLimit3)),
        rate  |-> parseFloat(Setting(settings, "water_block_3_rate", DefaultRate))],
       [limit |-> parseFloat(Setting(settings, "water_block_4_limit", DefaultLimit4)),
        rate  |-> parseFloat(Setting(settings, "water_block_4_rate", DefaultRate))],
       [limit |-> Infinity,
        rate  |-> parseFloat(Setting(settings, "water_block_5_rate",
                                     Setting(settings, "water_block_4_rate", DefaultRate)))] >>

sewageBlocks(settings) ==
    << [limit |-> parseFloat(Setting(settings, "sewage_block_1_limit", DefaultLimit1)),
        rate  |-> parseFloat(Setting(settings, "sewage_block_1_rate", DefaultRate))],
       [limit |-> parseFloat(Setting(settings, "sewage_block_2_limit", DefaultLimit2)),
        rate  |-> parseFloat(Setting(settings, "sewage_block_2_rate", DefaultRate))],
       [limit |-> parseFloat(Setting(settings, "sewage_block_3_limit", DefaultLimit3)),
        rate  |-> parseFloat(Setting(settings, "sewage_block_3_rate", DefaultRate))],
       [limit |-> Infinity,
        rate  |-> parseFloat(Setting(settings, "sewage_block_4_rate", DefaultRate))] >>

\* ------------------------------------------------------ calculateCostBreakdown
\* block.limit - prevLimit: the span of a block between two cumulative limits
BlockWidthAsPerBlockWidth(block, prevLimit) == block.limit
BlockWidthExclusive(block, prevLimit) ==
    IF block.limit = Infinity THEN Infinity ELSE block.limit - prevLimit - 1
BlockWidth(block, prevLimit) == Minus(block.limit, prevLimit)

\* `if (blockUsage > 0)`: the usage billed in the block
BilledUnguarded(blockUsage) == blockUsage
Billed(blockUsage) == IF blockUsage # NaN /\ blockUsage > 0 THEN blockUsage ELSE 0

\* One iteration of `for (const block of blocks)`; s holds the loop's variables
\* (cost, remainingUsage, prevLimit), the usage billed in each block so far and
\* whether `break` was taken.
BlockStep(s, block) ==
    LET blockUsage == MathMin(s.remainingUsage, BlockWidth(block, s.prevLimit))
        billedNow == Billed(blockUsage)
        remaining == s.remainingUsage - billedNow
    IN [cost           |-> IF billedNow = 0 THEN s.cost
                           ELSE Plus(s.cost, Times(billedNow, block.rate)),
        remainingUsage |-> remaining,
        prevLimit      |-> block.limit,
        billed         |-> Append(s.billed, billedNow),
        broke          |-> remaining <= 0]

RECURSIVE WalkBlocks(_, _, _)
WalkBlocks(blocks, i, s) ==
    IF i > Len(blocks) \/ s.broke THEN s
    ELSE WalkBlocks(blocks, i + 1, BlockStep(s, blocks[i]))

\* the tier loop run over one list of blocks, from remainingUsage = start
TierLoop(blocks, start) ==
    WalkBlocks(blocks, 1,
               [cost |-> 0, remainingUsage |-> start, prevLimit |-> 0,
                billed |-> << >>, broke |-> FALSE])

\* `remainingUsage = usage` before the sewage loop; water is the finished water loop
SewageStartAfterWater(usage, water) == water.remainingUsage
SewageStart(usage, water) == usage

\* total: waterBasic + waterUsageCost + sewageCost
CostTotalWithoutSewage(waterBasic, waterUsageCost, sewageCost) == Plus(waterBasic, waterUsageCost)
CostTotal(waterBasic, waterUsageCost, sewageCost) ==
    Plus(Plus(waterBasic, waterUsageCost), sewageCost)

calculateCostBreakdown(usage, settings) ==
    LET waterBasic == parseFloat(Setting(settings, "water_basic_monthly_cost", DefaultBasic))
        water == TierLoop(waterBlocks(settings), usage)
        sewage == TierLoop(sewageBlocks(settings), SewageStart(usage, water))
    IN [waterBasic |-> waterBasic,
        waterUsage |-> water.cost,
        sewage     |-> sewage.cost,
        total      |-> CostTotal(waterBasic, water.cost, sewage.cost)]

\* ------------------------------------------------------------------- dates
\* A zone observes daylight saving time (offset std + 1) on the days
\* dstFrom <= d < dstTo and standard time (offset std) on every other day.
Utc == [std |-> 0, dstFrom |-> 0, dstTo |-> 0]
FallBackZone == [std |-> -5, dstFrom |-> 0, dstTo |-> 1]
SpringForwardZone == [std |-> -5, dstFrom |-> 1, dstTo |-> MaxDay + 2]
Zones == {Utc, FallBackZone, SpringForwardZone}

\* hours east of UTC at local midnight of day d
UtcOffset(zone, d) == IF zone.dstFrom <= d /\ d < zone.dstTo THEN zone.std + 1 ELSE zone.std

\* new Date(year, month, day): local midnight of calendar day d
NewDate(zone, d) == [day |-> d, time |-> d * HoursPerDay - UtcOffset(zone, d)]

\* date.toISOString().split('T')[0]: the UTC calendar day of the instant
toISODate(date) == date.time \div HoursPerDay

\* ---------------------------------------------------------------- calendar
\* Months are numbered 0..11 as in JavaScript.  Calendar days are numbered
\* from 1 January EpochYear (day 0), and that number is the `day` of a Date.
IsLeapYear(y) == (y % 4 = 0 /\ y % 100 # 0) \/ y % 400 = 0

DaysInMonth(y, m) ==
    IF m = 1 THEN (IF IsLeapYear(y) THEN 29 ELSE 28)
    ELSE IF m \in {3, 5, 8, 10} THEN 30 ELSE 31

\* number of leap years before year y
LeapsBefore(y) == (y - 1) \div 4 - (y - 1) \div 100 + (y - 1) \div 400

\* day number of 1 January of year y
YearStart(y) == 365 * (y - EpochYear) + LeapsBefore(y) - LeapsBefore(EpochYear)

RECURSIVE DaysBeforeMonth(_, _)
DaysBeforeMonth(y, m) == IF m = 0 THEN 0 ELSE DaysBeforeMonth(y, m - 1) + DaysInMonth(y, m - 1)

\* the year a month outside 0..11 is carried into
MakeDayYearWithoutCarry(year, month) == year
MakeDayYear(year, month) == year + month \div MonthsPerYear

\* MakeDay of `new Date(year, month, day)`: the month is reduced to 0..11 with
\* the year carried, and the day counts on from the first of that month, past
\* the end of the month where it exceeds the month's length
MakeDayClamped(year, month, day) ==
    LET ym == MakeDayYear(year, month)
        mn == month % MonthsPerYear
        dt == IF day > DaysInMonth(ym, mn) THEN DaysInMonth(ym, mn) ELSE day
    IN  YearStart(ym) + DaysBeforeMonth(ym, mn) + dt - 1
MakeDay(year, month, day) ==
    LET ym == MakeDayYear(year, month)
        mn == month % MonthsPerYear
    IN  YearStart(ym) + DaysBeforeMonth(ym, mn) + day - 1

\* new Date(year, month, day) in the zone of the process
NewDateYMD(zone, year, month, day) == NewDate(zone, MakeDay(year, month, day))

\* date.getFullYear(), date.getMonth(), date.getDate(): the local calendar
\* fields of a Date
getFullYear(date) ==
    CHOOSE y \in (BaseYear - 1)..(BaseYear + MaxYears + 1) :
        YearStart(y) <= date.day /\ date.day < YearStart(y + 1)
getMonth(date) ==
    LET y == getFullYear(date)
    IN  CHOOSE m \in 0..(MonthsPerYear - 1) :
            /\ YearStart(y) + DaysBeforeMonth(y, m) <= date.day
            /\ date.day < YearStart(y) + DaysBeforeMonth(y, m) + DaysInMonth(y, m)
getDate(date) ==
    LET y == getFullYear(date)
    IN  date.day - (YearStart(y) + DaysBeforeMonth(y, getMonth(date))) + 1

\* ------------------------------------------------- billing period of today
\* parseInt(row.setting_value) of the two billing rows, 1 and 31 where the
\* row is absent (or parses to NaN or 0)
billing_start_day(billing) == Setting(billing, "billing_start_day", DefaultStartDay)
billing_end_day(billing) == Setting(billing, "billing_end_day", DefaultEndDay)

\* the month the period starts in when today's day is before the start day
PreviousMonthSameMonth(currentMonth) == currentMonth
PreviousMonth(currentMonth) == currentMonth - 1

\* startDate and endDate of GET /api/statistics for today = (currentYear,
\* currentMonth, currentDay) in local time
BillingPeriod(zone, billing, currentYear, currentMonth, currentDay) ==
    LET startDay == billing_start_day(billing)
        endDay == billing_end_day(billing)
    IN  IF currentDay >= startDay
        THEN [startDate |-> NewDateYMD(zone, currentYear, currentMonth, startDay),
              endDate   |-> IF endDay < startDay
                            THEN NewDateYMD(zone, currentYear, currentMonth + 1, endDay)
                            ELSE NewDateYMD(zone, currentYear, currentMonth, endDay)]
        ELSE [startDate |-> NewDateYMD(zone, currentYear, PreviousMonth(currentMonth), startDay),
              endDate   |-> NewDateYMD(zone, currentYear, currentMonth, endDay)]

\* ----------------------------------------------------- calculateStatistics
RECURSIVE SumUsage(_, _)
\* dailyUsage.reduce((sum, day) => sum + day.usage, 0)
SumUsage(dailyUsage, sum) ==
    IF dailyUsage = << >> THEN sum
    ELSE SumUsage(Tail(dailyUsage), sum + Head(dailyUsage).usage)

\* the entry pushed for the pair (readings[i-1], readings[i]), 0-based i = k
DailyEntryUnfloored(readings, k) ==
    [date  |-> readings[k + 1].reading_date,
     usage |-> readings[k + 1].reading_value - readings[k].reading_value]
DailyEntry(readings, k) ==
    [date  |-> readings[k + 1].reading_date,
     usage |-> MathMax(0, readings[k + 1].reading_value - readings[k].reading_value)]

\* daysWithReadings = dailyUsage.length
DaysWithReadingsCountingReadings(dailyUsage) == Len(dailyUsage) + 1
DaysWithReadings(dailyUsage) == Len(dailyUsage)

\* avgDailyUsage: totalUsage / daysWithReadings (a number divided by a count)
Average(totalUsage, daysWithReadings) ==
    IF daysWithReadings > 0 THEN totalUsage \div daysWithReadings ELSE 0

\* Math.ceil((endDate - startDate) / (1000 * 60 * 60 * 24)) + 1, as a whole number
TotalDaysInPeriod(startDate, endDate) ==
    MathCeilDiv(endDate.time - startDate.time, HoursPerDay) + 1

\* the local variables of calculateStatistics once readings.length >= 2
StatisticsLocals(readings, settings, startDate, endDate) ==
    LET dailyUsage == [k \in 1..(Len(readings) - 1) |-> DailyEntry(readings, k)]
        totalUsage == SumUsage(dailyUsage, 0)
        daysWithReadings == DaysWithReadings(dailyUsage)
        avgDailyUsage == Average(totalUsage, daysWithReadings)
        totalDaysInPeriod == TotalDaysInPeriod(startDate, endDate)
        projectedUsage == avgDailyUsage * totalDaysInPeriod
    IN [dailyUsage             |-> dailyUsage,
        totalUsage             |-> totalUsage,
        daysWithReadings       |-> daysWithReadings,
        avgDailyUsage          |-> avgDailyUsage,
        currentCostBreakdown   |-> calculateCostBreakdown(totalUsage, settings),
        totalDaysInPeriod      |-> totalDaysInPeriod,
        projectedUsage         |-> projectedUsage,
        projectedCostBreakdown |-> calculateCostBreakdown(projectedUsage, settings)]

\* { waterBasic: b.waterBasic.toFixed(2), ... }
FixedBreakdown(b) ==
    [waterBasic |-> toFixed(b.waterBasic, 2),
     waterUsage |-> toFixed(b.waterUsage, 2),
     sewage     |-> toFixed(b.sewage, 2),
     total      |-> toFixed(b.total, 2)]

ZeroBreakdown == [waterBasic |-> 0, waterUsage |-> 0, sewage |-> 0, total |-> 0]

\* the object returned when readings.length < 2
ZeroStatisticsWithBasic(settings, startDate, endDate) ==
    LET b == FixedBreakdown(calculateCostBreakdown(0, settings))
    IN [totalUsage    |-> 0,
        dailyUsage    |-> << >>,
        avgDailyUsage |-> 0,
        currentCost   |-> b.total,
        projectedCost |-> b.total,
        costBreakdown |-> [current |-> b, projected |-> b],
        billingPeriod |-> [start |-> toISODate(startDate), end |-> toISODate(endDate)]]
ZeroStatistics(settings, startDate, endDate) ==
    [totalUsage    |-> 0,
     dailyUsage    |-> << >>,
     avgDailyUsage |-> 0,
     currentCost   |-> 0,
     projectedCost |-> 0,
     costBreakdown |-> [current |-> ZeroBreakdown, projected |-> ZeroBreakdown],
     billingPeriod |-> [start |-> toISODate(startDate), end |-> toISODate(endDate)]]

\* the breakdown reported as currentCost and costBreakdown.current
CurrentCostFromProjection(l) == l.projectedCostBreakdown
CurrentCost(l) == l.currentCostBreakdown

calculateStatistics(readings, settings, startDate, endDate) ==
    IF Len(readings) < 2 THEN ZeroStatistics(settings, startDate, endDate)
    ELSE
    LET l == StatisticsLocals(readings, settings, startDate, endDate)
    IN [totalUsage       |-> toFixed(l.totalUsage, 4),
        dailyUsage       |-> l.dailyUsage,
        avgDailyUsage    |-> toFixed(l.avgDailyUsage, 4),
        currentCost      |-> toFixed(CurrentCost(l).total, 2),
        projectedCost    |-> toFixed(l.projectedCostBreakdown.total, 2),
        costBreakdown    |-> [current   |-> FixedBreakdown(CurrentCost(l)),
                              projected |-> FixedBreakdown(l.projectedCostBreakdown)],
        billingPeriod    |-> [start |-> toISODate(startDate), end |-> toISODate(endDate)],
        daysInPeriod     |-> l.totalDaysInPeriod,
        daysWithReadings |-> l.daysWithReadings]

\* ------------------------------------------------------ authenticateToken
\* A bearer token: absent, or a JWT carrying a user id that is signed with the
\* server's secret or not, and past its expiry or not.
NoToken == [present |-> FALSE, id |-> 0, signed |-> FALSE, expired |-> FALSE]

\* the outcome of the middleware: the status it answers with, or 200 and the
\* payload's user id where it calls next()
authenticateTokenUnverified(token) == [status |-> 200, error |-> "", user |-> token.id]
authenticateToken(token) ==
    IF ~token.present
    THEN [status |-> 401, error |-> "Authentication required", user |-> 0]
    ELSE IF ~token.signed
    THEN [status |-> 403, error |-> "Invalid token", user |-> 0]
    ELSE IF token.expired
    THEN [status |-> 401, error |-> "Token expired", user |-> 0]
    ELSE [status |-> 200, error |-> "", user |-> token.id]

\* ---------------------------------------------------------------- queries
\* WHERE user_id = ?
OwnedByAnyone(row, userId) == TRUE
OwnedBy(row, userId) == row.user_id = userId

\* SELECT * FROM readings WHERE user_id = ?
SelectReadings(table, userId) == {r \in table : OwnedBy(r, userId)}

\* ... AND reading_date BETWEEN ? AND ?
SelectReadingsBetween(table, userId, from, to) ==
    {r \in SelectReadings(table, userId) : from <= r.reading_date /\ r.reading_date <= to}

\* ORDER BY reading_date, reading_time: the rows in one of the orders the sort
\* keys allow (rows equal in both keys come in any order)
Ascending(rows) ==
    {rs \in [1..Cardinality(rows) -> rows] :
        /\ \A i, j \in 1..Cardinality(rows) : i # j => rs[i] # rs[j]
        /\ \A i \in 1..(Cardinality(rows) - 1) :
              \/ rs[i].reading_date < rs[i + 1].reading_date
              \/ /\ rs[i].reading_date = rs[i + 1].reading_date
                 /\ rs[i].reading_time <= rs[i + 1].reading_time}
\* ORDER BY reading_date DESC, reading_time DESC
Reverse(rs) == [i \in 1..Len(rs) |-> rs[Len(rs) + 1 - i]]
Descending(rows) == {Reverse(rs) : rs \in Ascending(rows)}

\* SELECT * FROM settings WHERE user_id = ?
SelectSettings(table, userId) == {row \in table : OwnedBy(row, userId)}
\* ... AND setting_key IN ('billing_start_day', 'billing_end_day')
SelectBillingSettings(table, userId) ==
    {row \in SelectSettings(table, userId) :
        row.setting_key \in {"billing_start_day", "billing_end_day"}}

\* rows.forEach(row => settings[row.setting_key] = row.setting_value)
SettingsObject(rows) ==
    [k \in {row.setting_key : row \in rows} |->
        (CHOOSE row \in rows : row.setting_key = k).setting_value]

\* parseInt of a stored string (a whole number, or NaN)
parseInt(v) == v
\* the billing object after `settings[key] = parseInt(value)`: a key whose
\* number is 0 or NaN is falsy and gets the default like an absent one
BillingObject(rows) ==
    LET parsed == SettingsObject(rows)
    IN  [k \in {key \in DOMAIN parsed : parseInt(parsed[key]) \notin {0, NaN}} |->
            parseInt(parsed[k])]

\* INSERT OR REPLACE INTO settings (user_id, setting_key, setting_value)
InsertOrReplace(table, userId, key, value) ==
    {row \in table : ~(row.user_id = userId /\ row.setting_key = key)}
        \cup {[user_id |-> userId, setting_key |-> key, setting_value |-> value]}

\* DELETE FROM readings WHERE id = ?
DeletedRowsOfAnyone(table, id, userId) == {r \in table : r.id = id}
\* DELETE FROM readings WHERE id = ? AND user_id = ?
DeletedRows(table, id, userId) == {r \in table : r.id = id /\ OwnedBy(r, userId)}

\* the rows of the settings table that hold the settings object s of a user
SettingsRows(userId, s) ==
    {[user_id |-> userId, setting_key |-> k, setting_value |-> s[k]] : k \in DOMAIN s}

\* the responses GET /api/statistics can give when its three queries read the
\* tables as they are in one state
StatisticsOn(readingsTable, settingsTable, userId, zone, t) ==
    LET period == BillingPeriod(zone, BillingObject(SelectBillingSettings(settingsTable, userId)),
                                t.year, t.month, t.day)
        rows == SelectReadingsBetween(readingsTable, userId,
                                      toISODate(period.startDate), toISODate(period.endDate))
    IN  {calculateStatistics(rs, SettingsObject(SelectSettings(settingsTable, userId)),
                             period.startDate, period.endDate) : rs \in Ascending(rows)}

\* ----------------------------------------------------------------- accounts
\* A setting_value is a decimal string; the default values are kept as their
\* number of hundredths.
Decimal(whole, hundredths) == 100 * whole + hundredths

\* the default settings of a new user
defaultSettings ==
    "water_basic_monthly_cost" :> Decimal(91, 79)
    @@ "water_block_1_limit" :> Decimal(6, 0) @@ "water_block_1_rate" :> Decimal(29, 67)
    @@ "water_block_2_limit" :> Decimal(15, 0) @@ "water_block_2_rate" :> Decimal(57, 32)
    @@ "water_block_3_limit" :> Decimal(25, 0) @@ "water_block_3_rate" :> Decimal(68, 50)
    @@ "water_block_4_limit" :> Decimal(35, 0) @@ "water_block_4_rate" :> Decimal(95, 12)
    @@ "water_block_5_rate" :> Decimal(133, 43)
    @@ "sewage_block_1_limit" :> Decimal(6, 0) @@ "sewage_block_1_rate" :> Decimal(22, 25)
    @@ "sewage_block_2_limit" :> Decimal(15, 0) @@ "sewage_block_2_rate" :> Decimal(42, 99)
    @@ "sewage_block_3_limit" :> Decimal(25, 0) @@ "sewage_block_3_rate" :> Decimal(51, 38)
    @@ "sewage_block_4_rate" :> Decimal(71, 34)
    @@ "billing_start_day" :> Decimal(1, 0) @@ "billing_end_day" :> Decimal(31, 0)

\* INSERT OR IGNORE with a uniqueness constraint on setting_key alone
InsertOrIgnoreAnyUser(table, userId, key, value) ==
    IF \E row \in table : row.setting_key = key
    THEN table
    ELSE table \cup {[user_id |-> userId, setting_key |-> key, setting_value |-> value]}
\* INSERT OR IGNORE INTO settings (user_id, setting_key, setting_value): the
\* row is not written when the user has a row of this key
InsertOrIgnore(table, userId, key, value) ==
    IF \E row \in table : row.user_id = userId /\ row.setting_key = key
    THEN table
    ELSE table \cup {[user_id |-> userId, setting_key |-> key, setting_value |-> value]}

\* initializeUserSettings(userId): one INSERT OR IGNORE for every default key
initializeUserSettings(table, userId) ==
    UNION {InsertOrIgnore(table, userId, key, defaultSettings[key]) : key \in DOMAIN defaultSettings}

\* bcrypt.hash(password, BCRYPT_ROUNDS)
bcryptHash(password) == <<"bcrypt", password>>

\* the row INSERT INTO users (username, password_hash, email) creates
\* (email 0: NULL); is_active BOOLEAN DEFAULT 1
Account(username, email, password) ==
    [username |-> username, email |-> email, password_hash |-> bcryptHash(password),
     is_active |-> TRUE]
\* !user.is_active
DeactivatedNever(user) == FALSE
Deactivated(user) == ~user.is_active
\* bcrypt.compare(password, hash)
bcryptCompare(password, hash) == bcryptHash(password) = hash
\* the status of the answer of POST /forgot-password, were it 404 for an
\* address without an active account
ForgotStatusRevealing(found) == IF found THEN 200 ELSE 404
\* res.json({message: ...}) after the lookup, whether or not a user was found
ForgotStatus(found) == 200
ForgotMessage == "If an account exists with that email, a password reset link has been sent."

\* SELECT ... FROM users WHERE username = ?
SelectUserByUsername(table, username) == {u \in DOMAIN table : table[u].username = username}
\* SELECT ... FROM users WHERE email = ?
SelectUserByEmail(table, email) == {u \in DOMAIN table : table[u].email = email}

\* ---------------------------------------------------------- reset tokens
\* Instants are whole hours since midnight of day 0 (UTC).  A timestamp string
\* is kept as its date part (the first ten characters), the character after
\* it, and the time part.
\* date.toISOString(): 'YYYY-MM-DDTHH:MM:SS.sssZ'
toISOString(time) ==
    [date |-> time \div HoursPerDay, separator |-> CharT, time |-> time % HoursPerDay]
\* SQLite datetime('now'): 'YYYY-MM-DD HH:MM:SS'
DatetimeNow(time) ==
    [date |-> time \div HoursPerDay, separator |-> CharSpace, time |-> time % HoursPerDay]

\* a > b on two TEXT values: character by character
TextGreater(a, b) ==
    \/ a.date > b.date
    \/ /\ a.date = b.date
       /\ \/ a.separator > b.separator
          \/ a.separator = b.separator /\ a.time > b.time

\* hashToken(token): the SHA-256 digest, distinct for distinct tokens
hashToken(token) == <<"sha256", token>>

\* used_at IS NULL
Unused(row) == row.used_at = << >>

\* WHERE prt.token_hash = ? AND prt.used_at IS NULL AND prt.expires_at > datetime('now')
FindResetToken(table, token, now) ==
    {row \in table : /\ row.token_hash = hashToken(token)
                     /\ Unused(row)
                     /\ TextGreater(row.expires_at, DatetimeNow(now))}

\* UPDATE password_reset_tokens SET used_at = CURRENT_TIMESTAMP WHERE user_id = ? AND used_at IS NULL
InvalidateTokens(table, userId, now) ==
    {IF row.user_id = userId /\ Unused(row) THEN [row EXCEPT !.used_at = <<now>>] ELSE row :
        row \in table}
\* UPDATE password_reset_tokens SET used_at = CURRENT_TIMESTAMP WHERE id = ?
MarkUsed(table, id, now) ==
    {IF row.id = id THEN [row EXCEPT !.used_at = <<now>>] ELSE row : row \in table}

\* ------------------------------------------------------------------ inputs
WaterLimits(a, b, c, d) ==
    ("water_block_1_limit" :> a) @@ ("water_block_2_limit" :> b) @@
    ("water_block_3_limit" :> c) @@ ("water_block_4_limit" :> d)
WaterRates4(a, b, c, d) ==
    ("water_block_1_rate" :> a) @@ ("water_block_2_rate" :> b) @@
    ("water_block_3_rate" :> c) @@ ("water_block_4_rate" :> d)
WaterRates(a, b, c, d, e) == WaterRates4(a, b, c, d) @@ ("water_block_5_rate" :> e)
SewageLimits(a, b, c) ==
    ("sewage_block_1_limit" :> a) @@ ("sewage_block_2_limit" :> b) @@
    ("sewage_block_3_limit" :> c)
SewageRates(a, b, c, d) ==
    ("sewage_block_1_rate" :> a) @@ ("sewage_block_2_rate" :> b) @@
    ("sewage_block_3_rate" :> c) @@ ("sewage_block_4_rate" :> d)
NoSettings == [k \in {} |-> 0]

\* stored tariffs: present or absent keys, limits in any order, rates of any sign
WaterLimitChoices == {WaterLimits(1, 2, 3, 4), WaterLimits(0, 1, 3, 4), WaterLimits(2, 1, 3, 5),
                      WaterLimits(0, 2, 2, 3), NoSettings}
WaterRateChoices == {WaterRates(1, 2, 3, 4, 5), WaterRates4(2, 5, 1, 3),
                     WaterRates(3, -2, 2, 1, 1), NoSettings}
SewageLimitChoices == {SewageLimits(1, 3, 4), NoSettings}
SewageRateChoices == {SewageRates(1, 2, 3, 4), SewageRates(2, 1, -1, 3), NoSettings}
BasicChoices == {NoSettings, "water_basic_monthly_cost" :> 3}

WaterChoices == {wl @@ wr : wl \in WaterLimitChoices, wr \in WaterRateChoices}
SewageChoices == {sl @@ sr : sl \in SewageLimitChoices, sr \in SewageRateChoices}
Tariffs == {w @@ sw @@ b : w \in WaterChoices, sw \in SewageChoices, b \in BasicChoices}

\* the tariffs calculateStatistics is run with
StatisticsTariffs ==
    {w @@ sw @@ b :
        w \in {WaterLimits(1, 2, 3, 4) @@ WaterRates(1, 2, 3, 4, 5),
               WaterLimits(2, 1, 3, 5) @@ WaterRates(3, -2, 2, 1, 1),
               WaterRates4(2, 5, 1, 3)},
        sw \in {SewageLimits(1, 3, 4) @@ SewageRates(1, 2, 3, 4), SewageRates(2, 1, -1, 3)},
        b \in {"water_basic_monthly_cost" :> 3}}

\* usages: the whole numbers up to MaxUsage and the values one unit beside them
\* a complete tariff with one of its stored strings not numeric
CompleteTariff ==
    WaterLimits(1, 2, 3, 4) @@ WaterRates(1, 2, 3, 4, 5) @@ SewageLimits(1, 3, 4)
        @@ SewageRates(1, 2, 3, 4) @@ "water_basic_monthly_cost" :> 3
MalformedTariffs == {[CompleteTariff EXCEPT ![k] = NaN] : k \in DOMAIN CompleteTariff}

Usages == {u \in 0..(MaxUsage * Scale) : u % Scale \in {0, 1, Scale - 1}}

Reading == [reading_value : {parseFloat(v) : v \in 0..MaxValue},
            reading_date  : 0..MaxReadingDay]
\* rows as the query returns them: ORDER BY reading_date
Sorted(rs) == \A i \in 1..(Len(rs) - 1) : rs[i].reading_date <= rs[i + 1].reading_date
ReadingLists == UNION {{rs \in [1..n -> Reading] : Sorted(rs)} : n \in 0..MaxReadings}

\* the zones a server asking for today's billing period runs in
EastZone == [std |-> 2, dstFrom |-> 0, dstTo |-> 0]
PeriodZones == {Utc, EastZone}
\* the stored billing rows: each day absent or one of a few days of the month
BillingDays == {1, 15, 19, 20, 29, 30, 31}
BillingKeys == {"billing_start_day", "billing_end_day"}
BillingSettings == UNION {[ks -> BillingDays] : ks \in SUBSET BillingKeys}
\* the local calendar days `new Date()` may fall on
Years == BaseYear..(BaseYear + MaxYears - 1)
TodayDays == {1, 5, 15, 20, 28, 29, 30, 31}
Todays == {t \in [year : Years, month : 0..(MonthsPerYear - 1), day : TodayDays] :
              t.day <= DaysInMonth(t.year, t.month)}

\* the accounts, and the bearer tokens a request may carry
Users == 1..MaxUsers
Tokens == {NoToken} \cup [present : {TRUE}, id : Users, signed : BOOLEAN, expired : BOOLEAN]
ProtectedRoutes == {"GET /api/readings", "POST /api/readings", "DELETE /api/readings",
                    "GET /api/settings", "PUT /api/settings", "GET /api/statistics"}

\* the day of the requests, and the two days readings are dated
ServerToday == [year |-> 2025, month |-> 0, day |-> 15]
EarlyDay == MakeDay(2025, 0, 10)
LateDay == MakeDay(2025, 0, 20)
\* bodies of POST /api/readings (a reading_value of 0 is falsy)
PostBodies ==
    {[reading_value |-> 0, reading_date |-> EarlyDay, reading_time |-> 1],
     [reading_value |-> 1, reading_date |-> EarlyDay, reading_time |-> 1],
     [reading_value |-> 2, reading_date |-> LateDay, reading_time |-> 1]}
\* start_date and end_date of GET /api/readings: absent, or both given
ReadingRanges == {<< >>, <<LateDay, LateDay>>}
\* the settings every account starts with, and the bodies of PUT /api/settings
\* (one key each: one INSERT OR REPLACE statement)
AccountSettings == CompleteTariff @@ "billing_start_day" :> 1 @@ "billing_end_day" :> 31
PutBodies == {"billing_start_day" :> 15, "water_block_1_rate" :> 2}
\* the settings of an account that has PUT billing_end_day = 20
ZoneSettings == [AccountSettings EXCEPT !["billing_end_day"] = 20]
\* the token login gives a user, and the tokens that do not verify
ValidToken(u) == [present |-> TRUE, id |-> u, signed |-> TRUE, expired |-> FALSE]
InvalidTokens == {t \in Tokens : authenticateToken(t).status # 200}

\* the hour the server starts at, the addresses asked for a reset (0 is the
\* address of no account), and the passwords of the reset requests
StartHours == {0, HoursPerDay - 2}
Emails == {0} \cup Users
ResetSlots == 1..MaxResets
ForgotSlots == 1..MaxForgots
\* the bodies of POST /login: a username (0 is the name of no account) and a
\* password (0 is the password the accounts start with)
LoginSlots == 1..MaxLogins
LoginBodies == [username : {0} \cup Users, password : 0..1]
\* the bodies of POST /register: a username, and an e-mail address or none (0)
RegisterSlots == 1..MaxRegistrations
RegisterBodies == [username : 1..(MaxRegistrations + 1), email : 0..2, password : {1}]

\* ------------------------------------------------------------------- state
VARIABLES
    settings,    \* the settings object of the caller
    tz,          \* the time zone of the server process
    pc,          \* "idle", or the function that has returned
    usage,       \* argument of calculateCostBreakdown
    cost,        \* its result
    readings,    \* arguments of calculateStatistics
    startDate,
    endDate,
    locals,      \* its local variables at the return (readings.length >= 2)
    stats,       \* its result
    today,       \* local calendar fields of `new Date()` in GET /api/statistics
    billing,     \* the two billing rows of the caller
    startDateStr, \* startDate.toISOString().split('T')[0]
    endDateStr,
    dbReadings,  \* the rows of table readings
    dbSettings,  \* the rows of table settings
    nextId,      \* the next AUTOINCREMENT id of readings
    statsReq,    \* the GET /api/statistics handler between its queries
    response,    \* the response on its way to the client, if any
    clients,     \* the bearer tokens the clients send
    accounts,    \* table users: the row of each user id
    dbTokens,    \* the rows of table password_reset_tokens
    nextToken,   \* the number of reset tokens generated so far, plus one
    clock,       \* the current instant, and the hours since the start
    forgot,      \* the POST /forgot-password handlers between their awaits
    resets,      \* the POST /reset-password handlers between their awaits
    mailbox,     \* the reset tokens mailed, with the instant they were issued at
    accepted,    \* the reset requests that have changed a password, with their token
    registrations, \* the POST /register handlers between their awaits
    logins       \* the POST /login handlers between their awaits

periodVars == <<today, billing, startDateStr, endDateStr>>
serverVars == <<dbReadings, dbSettings, nextId, statsReq, response, clients>>
engineVars == <<settings, pc, usage, cost, readings, startDate, endDate, locals, stats>>

resetVars == <<accounts, dbTokens, nextToken, clock, forgot, resets, mailbox, accepted>>

vars == <<settings, tz, pc, usage, cost, readings, startDate, endDate, locals, stats,
          periodVars, serverVars, resetVars, registrations, logins>>

NoRequest == [step |-> 0]
NoResponse == [route |-> "", token |-> NoToken, status |-> 0, body |-> << >>]

\* nobody is registering or logging in
NoRegistration ==
    /\ registrations = [slot \in RegisterSlots |-> [pc |-> "idle"]]
    /\ logins = [slot \in LoginSlots |-> [pc |-> "idle"]]

\* no password is being reset
NoReset ==
    /\ accounts = [u \in Users |-> Account(u, u, 0)]
    /\ dbTokens = {}
    /\ nextToken = 1
    /\ clock = [now |-> 0, elapsed |-> 0]
    /\ forgot = [slot \in ForgotSlots |-> [pc |-> "idle"]]
    /\ resets = [slot \in ResetSlots |-> [pc |-> "idle"]]
    /\ mailbox = {}
    /\ accepted = {}

\* no server is running
NoServer ==
    /\ dbReadings = {}
    /\ dbSettings = {}
    /\ nextId = 1
    /\ statsReq = NoRequest
    /\ response = NoResponse
    /\ clients = {}

\* no billing period has been asked for
NoPeriod ==
    /\ today = [year |-> BaseYear, month |-> 0, day |-> 1]
    /\ billing = NoSettings
    /\ startDateStr = 0
    /\ endDateStr = 0

NoLocals == [dailyUsage |-> << >>]

\* ---- the cost engine alone: calculateCostBreakdown on a stored tariff
Init ==
    /\ settings \in Tariffs
    /\ tz = Utc
    /\ pc = "idle"
    /\ usage = 0
    /\ cost = ZeroBreakdown
    /\ readings = << >>
    /\ startDate = NewDate(tz, 0)
    /\ endDate = NewDate(tz, 0)
    /\ locals = NoLocals
    /\ stats = ZeroStatistics(settings, startDate, endDate)
    /\ NoPeriod
    /\ NoServer
    /\ NoReset
    /\ NoRegistration

\* one call calculateCostBreakdown(u, settings)
CalculateCostBreakdown ==
    /\ pc = "idle"
    /\ \E u \in Usages :
          /\ pc' = "calculateCostBreakdown"
          /\ usage' = u
          /\ cost' = calculateCostBreakdown(u, settings)
    /\ UNCHANGED <<settings, tz, readings, startDate, endDate, locals, stats, periodVars,
                   serverVars, resetVars, registrations, logins>>

Next == CalculateCostBreakdown

Spec == Init /\ [][Next]_vars

\* ---- calculateStatistics on the rows and the period of one request
InitStatistics ==
    /\ settings \in StatisticsTariffs
    /\ tz \in Zones
    /\ pc = "idle"
    /\ usage = 0
    /\ cost = ZeroBreakdown
    /\ readings = << >>
    /\ startDate = NewDate(tz, 0)
    /\ endDate = NewDate(tz, 0)
    /\ locals = NoLocals
    /\ stats = ZeroStatistics(settings, startDate, endDate)
    /\ NoPeriod
    /\ NoServer
    /\ NoReset
    /\ NoRegistration

\* one call calculateStatistics(rs, settings, startDate, endDate) on the rows rs
\* and the local midnights of the days s <= e
CalculateStatistics ==
    /\ pc = "idle"
    /\ \E rs \in ReadingLists, s \in 0..MaxDay, e \in 0..MaxDay :
          /\ s <= e
          /\ pc' = "calculateStatistics"
          /\ readings' = rs
          /\ startDate' = NewDate(tz, s)
          /\ endDate' = NewDate(tz, e)
          /\ locals' = IF Len(rs) < 2 THEN NoLocals
                       ELSE StatisticsLocals(rs, settings, startDate', endDate')
          /\ stats' = calculateStatistics(rs, settings, startDate', endDate')
    /\ UNCHANGED <<settings, tz, usage, cost, periodVars, serverVars, resetVars, registrations, logins>>

NextStatistics == CalculateStatistics

SpecStatistics == InitStatistics /\ [][NextStatistics]_vars

\* ---- calculateStatistics with a stored tariff string that is not numeric
InitMalformed ==
    /\ settings \in MalformedTariffs
    /\ tz = Utc
    /\ pc = "idle"
    /\ usage = 0
    /\ cost = ZeroBreakdown
    /\ readings = << >>
    /\ startDate = NewDate(tz, 0)
    /\ endDate = NewDate(tz, 0)
    /\ locals = NoLocals
    /\ stats = ZeroStatistics(settings, startDate, endDate)
    /\ NoPeriod
    /\ NoServer
    /\ NoReset
    /\ NoRegistration

SpecMalformed == InitMalformed /\ [][NextStatistics]_vars

\* ---- the billing period GET /api/statistics resolves for today
InitPeriod ==
    /\ settings = NoSettings
    /\ tz \in PeriodZones
    /\ pc = "idle"
    /\ usage = 0
    /\ cost = ZeroBreakdown
    /\ readings = << >>
    /\ startDate = NewDate(tz, 0)
    /\ endDate = NewDate(tz, 0)
    /\ locals = NoLocals
    /\ stats = ZeroStatistics(settings, startDate, endDate)
    /\ today = [year |-> BaseYear, month |-> 0, day |-> 1]
    /\ billing \in BillingSettings
    /\ startDateStr = 0
    /\ endDateStr = 0
    /\ NoServer
    /\ NoReset
    /\ NoRegistration

\* lines 190-210 of the handler: today's fields, the two Dates, their strings
ResolveBillingPeriod ==
    /\ pc = "idle"
    /\ \E t \in Todays :
          LET period == BillingPeriod(tz, billing, t.year, t.month, t.day)
          IN  /\ pc' = "billingPeriod"
              /\ today' = t
              /\ startDate' = period.startDate
              /\ endDate' = period.endDate
              /\ startDateStr' = toISODate(period.startDate)
              /\ endDateStr' = toISODate(period.endDate)
    /\ UNCHANGED <<settings, tz, usage, cost, readings, locals, stats, billing, serverVars,
                   resetVars, registrations, logins>>

NextPeriod == ResolveBillingPeriod

SpecPeriod == InitPeriod /\ [][NextPeriod]_vars

\* ---- the protected routes of the server, on the accounts Users
InitServer ==
    /\ settings = NoSettings
    /\ tz = Utc
    /\ pc = "idle"
    /\ usage = 0
    /\ cost = ZeroBreakdown
    /\ readings = << >>
    /\ startDate = NewDate(tz, 0)
    /\ endDate = NewDate(tz, 0)
    /\ locals = NoLocals
    /\ stats = ZeroStatistics(settings, startDate, endDate)
    /\ today = ServerToday
    /\ billing = NoSettings
    /\ startDateStr = 0
    /\ endDateStr = 0
    /\ dbReadings = {}
    /\ dbSettings = UNION {SettingsRows(u, AccountSettings) : u \in Users}
    /\ nextId = 1
    /\ statsReq = NoRequest
    /\ response = NoResponse
    /\ clients = {ValidToken(u) : u \in Users}
    /\ NoReset
    /\ NoRegistration

Respond(route, token, status, body) ==
    response' = [route |-> route, token |-> token, status |-> status, body |-> body]

\* authenticateToken answers 401 or 403 and the handler is not called
RejectRequest ==
    /\ response = NoResponse
    /\ \E route \in ProtectedRoutes, token \in clients :
          LET auth == authenticateToken(token)
          IN  /\ auth.status # 200
              /\ Respond(route, token, auth.status, auth.error)
    /\ UNCHANGED <<tz, engineVars, periodVars, dbReadings, dbSettings, nextId, statsReq, clients,
                   resetVars, registrations, logins>>

\* GET /api/readings
GetReadings ==
    /\ response = NoResponse
    /\ \E token \in clients, range \in ReadingRanges :
          LET auth == authenticateToken(token)
              rows == IF range = << >> THEN SelectReadings(dbReadings, auth.user)
                      ELSE SelectReadingsBetween(dbReadings, auth.user, range[1], range[2])
          IN  /\ auth.status = 200
              /\ \E rs \in Descending(rows) : Respond("GET /api/readings", token, 200, rs)
    /\ UNCHANGED <<tz, engineVars, periodVars, dbReadings, dbSettings, nextId, statsReq, clients,
                   resetVars, registrations, logins>>

\* POST /api/readings
PostReading ==
    /\ response = NoResponse
    /\ \E token \in clients, body \in PostBodies :
          LET auth == authenticateToken(token)
              row == [id |-> nextId, user_id |-> auth.user,
                      reading_value |-> parseFloat(body.reading_value),
                      reading_date |-> body.reading_date,
                      reading_time |-> body.reading_time]
          IN  /\ auth.status = 200
              /\ IF body.reading_value = 0
                 THEN /\ Respond("POST /api/readings", token, 400, "Missing required fields")
                      /\ UNCHANGED <<dbReadings, nextId>>
                 ELSE /\ nextId <= MaxIds
                      /\ dbReadings' = dbReadings \cup {row}
                      /\ nextId' = nextId + 1
                      /\ Respond("POST /api/readings", token, 200, row)
    /\ UNCHANGED <<tz, engineVars, periodVars, dbSettings, statsReq, clients,
                   resetVars, registrations, logins>>

\* DELETE /api/readings/:id
DeleteReading ==
    /\ response = NoResponse
    /\ \E token \in clients, id \in 1..MaxIds :
          LET auth == authenticateToken(token)
              deleted == DeletedRows(dbReadings, id, auth.user)
          IN  /\ auth.status = 200
              /\ dbReadings' = dbReadings \ deleted
              /\ IF deleted = {}
                 THEN Respond("DELETE /api/readings", token, 404,
                              "Reading not found or unauthorized")
                 ELSE Respond("DELETE /api/readings", token, 200,
                              "Reading deleted successfully")
    /\ UNCHANGED <<tz, engineVars, periodVars, dbSettings, nextId, statsReq, clients,
                   resetVars, registrations, logins>>

\* GET /api/settings
GetSettings ==
    /\ response = NoResponse
    /\ \E token \in clients :
          LET auth == authenticateToken(token)
          IN  /\ auth.status = 200
              /\ Respond("GET /api/settings", token, 200,
                         SettingsObject(SelectSettings(dbSettings, auth.user)))
    /\ UNCHANGED <<tz, engineVars, periodVars, dbReadings, dbSettings, nextId, statsReq, clients,
                   resetVars, registrations, logins>>

\* PUT /api/settings with a body of one key
PutSettings ==
    /\ response = NoResponse
    /\ \E token \in clients, body \in PutBodies :
          LET auth == authenticateToken(token)
              key == CHOOSE k \in DOMAIN body : TRUE
          IN  /\ auth.status = 200
              /\ dbSettings' = InsertOrReplace(dbSettings, auth.user, key, body[key])
              /\ Respond("PUT /api/settings", token, 200, "Settings updated successfully")
    /\ UNCHANGED <<tz, engineVars, periodVars, dbReadings, nextId, statsReq, clients,
                   resetVars, registrations, logins>>

\* GET /api/statistics up to the callback of its first query: the billing
\* rows are read and the period of today is resolved.  `snapshots` records
\* the responses the request would get from the tables of one state.
GetStatisticsBilling ==
    /\ response = NoResponse
    /\ statsReq.step = 0
    /\ \E token \in clients :
          LET auth == authenticateToken(token)
              period == BillingPeriod(tz, BillingObject(SelectBillingSettings(dbSettings, auth.user)),
                                      today.year, today.month, today.day)
          IN  /\ auth.status = 200
              /\ statsReq' = [step |-> 1, token |-> token, user |-> auth.user,
                              startDate |-> period.startDate,
                              endDate |-> period.endDate,
                              startDateStr |-> toISODate(period.startDate),
                              endDateStr |-> toISODate(period.endDate),
                              readings |-> << >>,
                              snapshots |-> StatisticsOn(dbReadings, dbSettings, auth.user,
                                                         tz, today)]
    /\ response' = NoResponse
    /\ UNCHANGED <<tz, engineVars, periodVars, dbReadings, dbSettings, nextId, clients,
                   resetVars, registrations, logins>>

\* the callback of its second query: the readings of the period
GetStatisticsReadings ==
    /\ response = NoResponse
    /\ statsReq.step = 1
    /\ \E rs \in Ascending(SelectReadingsBetween(dbReadings, statsReq.user,
                                                 statsReq.startDateStr, statsReq.endDateStr)) :
          statsReq' = [statsReq EXCEPT
                          !.step = 2,
                          !.readings = rs,
                          !.snapshots = @ \cup StatisticsOn(dbReadings, dbSettings,
                                                            statsReq.user, tz, today)]
    /\ response' = NoResponse
    /\ UNCHANGED <<tz, engineVars, periodVars, dbReadings, dbSettings, nextId, clients,
                   resetVars, registrations, logins>>

\* the callback of its third query: all settings, calculateStatistics, res.json
GetStatisticsSettings ==
    /\ response = NoResponse
    /\ statsReq.step = 2
    /\ Respond("GET /api/statistics", statsReq.token, 200,
               calculateStatistics(statsReq.readings,
                                   SettingsObject(SelectSettings(dbSettings, statsReq.user)),
                                   statsReq.startDate, statsReq.endDate))
    /\ statsReq' = NoRequest
    /\ UNCHANGED <<tz, engineVars, periodVars, dbReadings, dbSettings, nextId, clients,
                   resetVars, registrations, logins>>

\* the client receives the response
Deliver ==
    /\ response # NoResponse
    /\ response' = NoResponse
    /\ UNCHANGED <<tz, engineVars, periodVars, dbReadings, dbSettings, nextId, statsReq, clients,
                   resetVars, registrations, logins>>

NextServer ==
    \/ GetReadings
    \/ PostReading
    \/ DeleteReading
    \/ GetSettings
    \/ PutSettings
    \/ GetStatisticsBilling
    \/ GetStatisticsReadings
    \/ GetStatisticsSettings
    \/ Deliver

SpecServer == InitServer /\ [][NextServer]_vars

\* ---- the same routes, asked with every kind of bearer token
InitAuth ==
    /\ settings = NoSettings
    /\ tz = Utc
    /\ pc = "idle"
    /\ usage = 0
    /\ cost = ZeroBreakdown
    /\ readings = << >>
    /\ startDate = NewDate(tz, 0)
    /\ endDate = NewDate(tz, 0)
    /\ locals = NoLocals
    /\ stats = ZeroStatistics(settings, startDate, endDate)
    /\ today = ServerToday
    /\ billing = NoSettings
    /\ startDateStr = 0
    /\ endDateStr = 0
    /\ dbReadings = {}
    /\ dbSettings = UNION {SettingsRows(u, AccountSettings) : u \in Users}
    /\ nextId = 1
    /\ statsReq = NoRequest
    /\ response = NoResponse
    /\ clients = Tokens
    /\ NoReset
    /\ NoRegistration

NextAuth == RejectRequest \/ NextServer

SpecAuth == InitAuth /\ [][NextAuth]_vars

\* ---- the same routes on a server whose local time is UTC or east of it
InitZone ==
    /\ settings = NoSettings
    /\ tz \in PeriodZones
    /\ pc = "idle"
    /\ usage = 0
    /\ cost = ZeroBreakdown
    /\ readings = << >>
    /\ startDate = NewDate(tz, 0)
    /\ endDate = NewDate(tz, 0)
    /\ locals = NoLocals
    /\ stats = ZeroStatistics(settings, startDate, endDate)
    /\ today = ServerToday
    /\ billing = NoSettings
    /\ startDateStr = 0
    /\ endDateStr = 0
    /\ dbReadings = {}
    /\ dbSettings = UNION {SettingsRows(u, ZoneSettings) : u \in Users}
    /\ nextId = 1
    /\ statsReq = NoRequest
    /\ response = NoResponse
    /\ clients = {ValidToken(u) : u \in Users}
    /\ NoReset
    /\ NoRegistration

SpecZone == InitZone /\ [][NextServer]_vars

\* ---- registration: src/unnamed/part_002, POST /register, next to the
\* settings routes of the users who have registered
InitRegister ==
    /\ settings = NoSettings
    /\ tz = Utc
    /\ pc = "idle"
    /\ usage = 0
    /\ cost = ZeroBreakdown
    /\ readings = << >>
    /\ startDate = NewDate(tz, 0)
    /\ endDate = NewDate(tz, 0)
    /\ locals = NoLocals
    /\ stats = ZeroStatistics(settings, startDate, endDate)
    /\ NoPeriod
    /\ dbReadings = {}
    /\ dbSettings = SettingsRows(1, defaultSettings)
    /\ nextId = 1
    /\ statsReq = NoRequest
    /\ response = NoResponse
    /\ clients = {ValidToken(1)}
    /\ accounts = [u \in {1} |-> Account(1, 1, 1)]
    /\ dbTokens = {}
    /\ nextToken = 1
    /\ clock = [now |-> 0, elapsed |-> 0]
    /\ forgot = [slot \in ForgotSlots |-> [pc |-> "idle"]]
    /\ resets = [slot \in ResetSlots |-> [pc |-> "idle"]]
    /\ mailbox = {}
    /\ accepted = {}
    /\ NoRegistration

registerFrame == <<settings, tz, pc, usage, cost, readings, startDate, endDate, locals, stats,
                   periodVars, dbReadings, nextId, statsReq, dbTokens, nextToken, clock, forgot,
                   resets, mailbox, accepted, logins>>

\* POST /register up to the username lookup
RegisterUsername ==
    /\ response = NoResponse
    /\ \E slot \in RegisterSlots, body \in RegisterBodies :
          /\ registrations[slot].pc = "idle"
          /\ IF SelectUserByUsername(accounts, body.username) # {}
             THEN /\ Respond("POST /register", NoToken, 409, "Username already exists")
                  /\ registrations' = [registrations EXCEPT ![slot] = [pc |-> "done"]]
             ELSE /\ registrations' = [registrations EXCEPT ![slot] =
                                          [pc |-> IF body.email # 0 THEN "email" ELSE "hashing",
                                           body |-> body]]
                  /\ UNCHANGED response
    /\ UNCHANGED <<registerFrame, dbSettings, clients, accounts>>

\* the e-mail lookup, when the body has an e-mail address
RegisterEmail ==
    /\ response = NoResponse
    /\ \E slot \in RegisterSlots :
          /\ registrations[slot].pc = "email"
          /\ IF SelectUserByEmail(accounts, registrations[slot].body.email) # {}
             THEN /\ Respond("POST /register", NoToken, 409, "Email already registered")
                  /\ registrations' = [registrations EXCEPT ![slot] = [pc |-> "done"]]
             ELSE /\ registrations' = [registrations EXCEPT ![slot].pc = "hashing"]
                  /\ UNCHANGED response
    /\ UNCHANGED <<registerFrame, dbSettings, clients, accounts>>

\* after bcrypt.hash: INSERT INTO users, which fails on a username or an
\* e-mail address that has been taken meanwhile (UNIQUE)
RegisterInsert ==
    /\ response = NoResponse
    /\ \E slot \in RegisterSlots :
          /\ registrations[slot].pc = "hashing"
          /\ LET body == registrations[slot].body
                 lastID == Cardinality(DOMAIN accounts) + 1
             IN  IF \/ SelectUserByUsername(accounts, body.username) # {}
                    \/ body.email # 0 /\ SelectUserByEmail(accounts, body.email) # {}
                 THEN /\ Respond("POST /register", NoToken, 500, "Registration failed")
                      /\ registrations' = [registrations EXCEPT ![slot] = [pc |-> "done"]]
                      /\ UNCHANGED accounts
                 ELSE /\ accounts' = accounts @@
                                        (lastID :> Account(body.username, body.email, body.password))
                      /\ registrations' = [registrations EXCEPT ![slot] =
                                              [pc |-> "settings", body |-> body, id |-> lastID]]
                      /\ UNCHANGED response
    /\ UNCHANGED <<registerFrame, dbSettings, clients>>

\* initializeUserSettings(result.id), generateToken, 201
RegisterSettings ==
    /\ response = NoResponse
    /\ \E slot \in RegisterSlots :
          /\ registrations[slot].pc = "settings"
          /\ LET id == registrations[slot].id
                 token == ValidToken(id)
             IN  /\ dbSettings' = initializeUserSettings(dbSettings, id)
                 /\ clients' = clients \cup {token}
                 /\ Respond("POST /register", NoToken, 201, [token |-> token, user |-> id])
          /\ registrations' = [registrations EXCEPT ![slot] = [pc |-> "done"]]
    /\ UNCHANGED <<registerFrame, accounts>>

NextRegister ==
    \/ RegisterUsername
    \/ RegisterEmail
    \/ RegisterInsert
    \/ RegisterSettings
    \/ GetSettings
    \/ PutSettings
    \/ Deliver

SpecRegister == InitRegister /\ [][NextRegister]_vars

\* ---- password reset: src/unnamed/part_002, POST /forgot-password,
\* GET /verify-reset-token, POST /reset-password
InitReset ==
    /\ settings = NoSettings
    /\ tz = Utc
    /\ pc = "idle"
    /\ usage = 0
    /\ cost = ZeroBreakdown
    /\ readings = << >>
    /\ startDate = NewDate(tz, 0)
    /\ endDate = NewDate(tz, 0)
    /\ locals = NoLocals
    /\ stats = ZeroStatistics(settings, startDate, endDate)
    /\ NoPeriod
    /\ NoServer
    /\ NoRegistration
    /\ accounts = [u \in Users |-> Account(u, u, 0)]
    /\ dbTokens = {}
    /\ nextToken = 1
    /\ clock \in {[now |-> h, elapsed |-> 0] : h \in StartHours}
    /\ forgot = [slot \in ForgotSlots |-> [pc |-> "idle"]]
    /\ resets = [slot \in ResetSlots |-> [pc |-> "idle"]]
    /\ mailbox = {}
    /\ accepted = {}

resetFrame == <<settings, tz, pc, usage, cost, readings, startDate, endDate, locals, stats,
                periodVars, dbReadings, dbSettings, nextId, statsReq, clients, registrations, logins>>

\* the tokens a client can send: the ones mailed, and one that was never issued
SentTokens == {0} \cup {m.token : m \in mailbox}

\* an hour passes
Tick ==
    /\ response = NoResponse
    /\ clock.elapsed < MaxElapsed
    /\ clock' = [now |-> clock.now + 1, elapsed |-> clock.elapsed + 1]
    /\ UNCHANGED <<resetFrame, response, accounts, dbTokens, nextToken, forgot, resets, mailbox,
                   accepted>>

\* POST /forgot-password up to the user lookup
ForgotPassword ==
    /\ response = NoResponse
    /\ \E slot \in ForgotSlots, email \in Emails :
          /\ forgot[slot].pc = "idle"
          /\ LET found == {user \in SelectUserByEmail(accounts, email) :
                              ~Deactivated(accounts[user])}
             IN  IF found # {}
                 THEN /\ \E user \in found :
                            forgot' = [forgot EXCEPT ![slot] =
                                          [pc |-> "invalidate", email |-> email, user |-> user]]
                      /\ UNCHANGED response
                 ELSE /\ Respond("/forgot-password", NoToken, ForgotStatus(FALSE), ForgotMessage)
                      /\ forgot' = [forgot EXCEPT ![slot] = [pc |-> "done", email |-> email]]
    /\ UNCHANGED <<resetFrame, accounts, dbTokens, nextToken, clock, resets, mailbox, accepted>>

\* POST /forgot-password: the user's unused tokens are marked used
ForgotInvalidate ==
    /\ response = NoResponse
    /\ \E slot \in ForgotSlots :
          /\ forgot[slot].pc = "invalidate"
          /\ dbTokens' = InvalidateTokens(dbTokens, forgot[slot].user, clock.now)
          /\ forgot' = [forgot EXCEPT ![slot].pc = "insert"]
    /\ UNCHANGED <<resetFrame, response, accounts, nextToken, clock, resets, mailbox, accepted>>

\* POST /forgot-password: a token is generated, stored and mailed
ForgotInsert ==
    /\ response = NoResponse
    /\ \E slot \in ForgotSlots :
          /\ forgot[slot].pc = "insert"
          /\ LET token == nextToken
                 expiresAt == clock.now + OneHour
             IN  /\ dbTokens' = dbTokens \cup {[id |-> nextToken,
                                                user_id |-> forgot[slot].user,
                                                token_hash |-> hashToken(token),
                                                expires_at |-> toISOString(expiresAt),
                                                used_at |-> << >>]}
                 /\ mailbox' = mailbox \cup {[token |-> token, user_id |-> forgot[slot].user,
                                              issuedAt |-> clock.now]}
          /\ forgot' = [forgot EXCEPT ![slot].pc = "done"]
    /\ nextToken' = nextToken + 1
    /\ Respond("/forgot-password", NoToken, ForgotStatus(TRUE), ForgotMessage)
    /\ UNCHANGED <<resetFrame, accounts, clock, resets, accepted>>

\* GET /verify-reset-token
VerifyResetToken ==
    /\ response = NoResponse
    /\ \E token \in SentTokens :
          LET rows == {row \in FindResetToken(dbTokens, token, clock.now) :
                          ~Deactivated(accounts[row.user_id])}
          IN  IF rows = {}
              THEN Respond("/verify-reset-token", NoToken, 400,
                           "Invalid or expired reset token")
              ELSE \E row \in rows :
                      Respond("/verify-reset-token", NoToken, 200,
                              [valid |-> TRUE, username |-> row.user_id])
    /\ UNCHANGED <<resetFrame, accounts, dbTokens, nextToken, clock, forgot, resets, mailbox,
                   accepted>>

\* POST /reset-password up to the token lookup; bcrypt.hash is started
ResetLookup ==
    /\ response = NoResponse
    /\ \E slot \in ResetSlots, token \in SentTokens :
          /\ resets[slot].pc = "idle"
          /\ LET rows == FindResetToken(dbTokens, token, clock.now)
             IN  IF rows = {}
                 THEN /\ Respond("/reset-password", NoToken, 400,
                                 "Invalid or expired reset token")
                      /\ resets' = [resets EXCEPT ![slot] = [pc |-> "done", token |-> token]]
                 ELSE \E resetToken \in rows :
                         IF Deactivated(accounts[resetToken.user_id])
                         THEN /\ Respond("/reset-password", NoToken, 403,
                                         "Account is deactivated")
                              /\ resets' = [resets EXCEPT ![slot] =
                                               [pc |-> "done", token |-> token]]
                         ELSE /\ resets' = [resets EXCEPT ![slot] =
                                               [pc |-> "hashing", resetToken |-> resetToken,
                                                token |-> token, password |-> slot]]
                              /\ UNCHANGED response
    /\ UNCHANGED <<resetFrame, accounts, dbTokens, nextToken, clock, forgot, mailbox, accepted>>

\* POST /reset-password after bcrypt.hash: the password is changed and the
\* token is marked used
ResetUpdate ==
    /\ response = NoResponse
    /\ \E slot \in ResetSlots :
          /\ resets[slot].pc = "hashing"
          /\ LET req == resets[slot]
             IN  /\ accounts' = [accounts EXCEPT
                                    ![req.resetToken.user_id].password_hash =
                                        bcryptHash(req.password)]
                 /\ dbTokens' = MarkUsed(dbTokens, req.resetToken.id, clock.now)
                 /\ accepted' = accepted \cup {[token |-> req.token, request |-> slot]}
          /\ resets' = [resets EXCEPT ![slot] = [pc |-> "done", token |-> resets[slot].token]]
    /\ Respond("/reset-password", NoToken, 200, "Password reset successfully")
    /\ UNCHANGED <<resetFrame, nextToken, clock, forgot, mailbox>>

NextReset ==
    \/ Tick
    \/ ForgotPassword
    \/ ForgotInvalidate
    \/ ForgotInsert
    \/ VerifyResetToken
    \/ ResetLookup
    \/ ResetUpdate
    \/ Deliver

SpecReset == InitReset /\ [][NextReset]_vars

\* ---- accounts that can be deactivated: login and the reset routes
accountFrame == <<settings, tz, pc, usage, cost, readings, startDate, endDate, locals, stats,
                  periodVars, dbReadings, dbSettings, nextId, statsReq, registrations,
                  dbTokens, nextToken, clock, forgot, resets, mailbox, accepted>>

\* POST /login up to the user lookup
LoginLookup ==
    /\ response = NoResponse
    /\ \E slot \in LoginSlots, body \in LoginBodies :
          /\ logins[slot].pc = "idle"
          /\ LET found == SelectUserByUsername(accounts, body.username)
             IN  IF found = {}
                 THEN /\ Respond("POST /login", NoToken, 401, "Invalid username or password")
                      /\ logins' = [logins EXCEPT ![slot] = [pc |-> "done", body |-> body]]
                 ELSE \E id \in found :
                         IF Deactivated(accounts[id])
                         THEN /\ Respond("POST /login", NoToken, 403, "Account is deactivated")
                              /\ logins' = [logins EXCEPT ![slot] =
                                               [pc |-> "done", body |-> body]]
                         ELSE /\ logins' = [logins EXCEPT ![slot] =
                                               [pc |-> "comparing", body |-> body, id |-> id,
                                                password_hash |-> accounts[id].password_hash]]
                              /\ UNCHANGED response
    /\ UNCHANGED <<accountFrame, accounts, clients>>

\* after bcrypt.compare: 401, or generateToken and 200
LoginCompare ==
    /\ response = NoResponse
    /\ \E slot \in LoginSlots :
          /\ logins[slot].pc = "comparing"
          /\ LET req == logins[slot]
                 token == ValidToken(req.id)
             IN  IF bcryptCompare(req.body.password, req.password_hash)
                 THEN /\ clients' = clients \cup {token}
                      /\ Respond("POST /login", NoToken, 200, [token |-> token, user |-> req.id])
                 ELSE /\ Respond("POST /login", NoToken, 401, "Invalid username or password")
                      /\ UNCHANGED clients
          /\ logins' = [logins EXCEPT ![slot] = [pc |-> "done", body |-> logins[slot].body]]
    /\ UNCHANGED <<accountFrame, accounts>>

\* an operator sets is_active = 0 on an account
Deactivate ==
    /\ response = NoResponse
    /\ \E u \in DOMAIN accounts :
          /\ accounts[u].is_active
          /\ accounts' = [accounts EXCEPT ![u].is_active = FALSE]
    /\ UNCHANGED <<accountFrame, response, clients, logins>>

NextAccounts ==
    \/ LoginLookup
    \/ LoginCompare
    \/ Deactivate
    \/ ForgotPassword
    \/ ForgotInvalidate
    \/ ForgotInsert
    \/ VerifyResetToken
    \/ ResetLookup
    \/ ResetUpdate
    \/ Deliver

InitAccounts ==
    /\ InitReset
    /\ clock.now = 0

SpecAccounts == InitAccounts /\ [][NextAccounts]_vars

\* =================================================================== claims
Costed == pc = "calculateCostBreakdown"
Computed == pc = "calculateStatistics"

\* the effective limit and rate of water block k
WaterLimit(k) == waterBlocks(settings)[k].limit
WaterRate(k) == waterBlocks(settings)[k].rate
StrictlyIncreasingLimits ==
    /\ WaterLimit(1) < WaterLimit(2)
    /\ WaterLimit(2) < WaterLimit(3)
    /\ WaterLimit(3) < WaterLimit(4)

\* min(u, L) for a threshold L that may be infinite
Below(u, L) == IF L = Infinity \/ u < L THEN u ELSE L
\* the cumulative threshold L_k, with L_0 = 0 and L_5 = infinity
Threshold(k) == IF k = 0 THEN 0 ELSE WaterLimit(k)

RECURSIVE ReferenceUpTo(_, _)
\* sum over blocks 1..k of rate_j * (min(u, L_j) - min(u, L_(j-1)))
ReferenceUpTo(u, k) ==
    IF k = 0 THEN 0
    ELSE ReferenceUpTo(u, k - 1)
         + Times(Below(u, Threshold(k)) - Below(u, Threshold(k - 1)), WaterRate(k))

\* C1: with strictly increasing water limits, waterUsage is the sum over the
\* five blocks of rate_k * (min(u, L_k) - min(u, L_(k-1))), the limits being
\* cumulative thresholds from zero.
C1_CumulativeThresholds ==
    (Costed /\ StrictlyIncreasingLimits) => cost.waterUsage = ReferenceUpTo(usage, 5)

\* usage reaching into every one of the five blocks of an increasing tariff
C1_Witness ==
    /\ Costed /\ StrictlyIncreasingLimits
    /\ usage > WaterLimit(4)
    /\ WaterLimit(1) > 0
    /\ cost.waterUsage = ReferenceUpTo(usage, 5)
    /\ cost.waterUsage # Times(usage, WaterRate(1))

\* the usage billed in water block k by the loop (0 once the loop has left)
BilledIn(k) ==
    LET billed == TierLoop(waterBlocks(settings), usage).billed
    IN IF k <= Len(billed) THEN billed[k] ELSE 0

\* C2: usage exactly at the cumulative limit L_k is billed in blocks 1..k and
\* not at all in block k+1; usage above L_k is billed up to L_k in blocks 1..k
\* and its excess usage - L_k goes to block k+1 (as far as that block reaches).
C2_BoundaryBelongsToLowerBlock ==
    (Costed /\ StrictlyIncreasingLimits) =>
        \A k \in 1..4 :
            /\ usage = WaterLimit(k) =>
                  /\ \A j \in 1..k : BilledIn(j) = WaterLimit(j) - Threshold(j - 1)
                  /\ \A j \in (k + 1)..5 : BilledIn(j) = 0
                  /\ cost.waterUsage = ReferenceUpTo(WaterLimit(k), k)
            /\ usage > WaterLimit(k) =>
                  /\ \A j \in 1..k : BilledIn(j) = WaterLimit(j) - Threshold(j - 1)
                  /\ BilledIn(k + 1) = Below(usage, Threshold(k + 1)) - WaterLimit(k)
                  /\ Below(usage, Threshold(k + 1)) = usage =>
                        cost.waterUsage = ReferenceUpTo(WaterLimit(k), k)
                                          + Times(usage - WaterLimit(k), WaterRate(k + 1))

\* usage one unit above the first limit: one unit is billed at block 2's rate
C2_Witness ==
    /\ Costed /\ StrictlyIncreasingLimits
    /\ WaterLimit(1) > 0
    /\ usage = WaterLimit(1) + 1
    /\ BilledIn(1) = WaterLimit(1)
    /\ BilledIn(2) = 1

WaterKeys == {"water_block_1_limit", "water_block_2_limit", "water_block_3_limit",
              "water_block_4_limit", "water_block_1_rate", "water_block_2_rate",
              "water_block_3_rate", "water_block_4_rate", "water_block_5_rate"}
\* the settings with their water limits and rates replaced by those of w
WithWater(w) == w @@ [k \in (DOMAIN settings) \ WaterKeys |-> settings[k]]

\* C3: the sewage charge is the tier walk of the sewage blocks over the full
\* usage, and is the same under every other choice of water limits and rates.
C3_SewageIndependentOfWater ==
    Costed =>
        /\ cost.sewage = TierLoop(sewageBlocks(settings), usage).cost
        /\ \A w \in WaterChoices : calculateCostBreakdown(usage, WithWater(w)).sewage = cost.sewage

\* usage billed in both computations, the water and sewage limits being different
C3_Witness ==
    /\ Costed
    /\ cost.sewage > 0
    /\ cost.waterUsage > 0
    /\ usage > sewageBlocks(settings)[1].limit
    /\ sewageBlocks(settings)[1].limit # WaterLimit(1)

\* C4: total = waterBasic + waterUsage + sewage, and waterBasic is the
\* configured flat charge (0 when not configured) whatever the usage is.
C4_TotalDecomposition ==
    Costed =>
        /\ cost.total = cost.waterBasic + cost.waterUsage + cost.sewage
        /\ cost.waterBasic = IF "water_basic_monthly_cost" \in DOMAIN settings
                             THEN settings["water_basic_monthly_cost"] * Scale ELSE 0

\* a configured basic charge and usage billed for water and for sewage
C4_Witness ==
    /\ Costed
    /\ "water_basic_monthly_cost" \in DOMAIN settings
    /\ cost.waterBasic > 0 /\ cost.waterUsage > 0 /\ cost.sewage > 0
    /\ cost.total > cost.waterBasic + cost.waterUsage

NonNegativeRates ==
    /\ \A k \in 1..5 : waterBlocks(settings)[k].rate >= 0
    /\ \A k \in 1..4 : sewageBlocks(settings)[k].rate >= 0

\* C5 as claimed: for every tariff, a lower usage never costs more in total
C5_MonotoneForEveryTariff ==
    Costed => \A u1 \in Usages :
                 u1 <= usage => calculateCostBreakdown(u1, settings).total <= cost.total

\* C5, amended: for every tariff whose block rates are all non-negative, a
\* lower usage never costs more in total.
C5_MonotoneForNonNegativeRates ==
    (Costed /\ NonNegativeRates) =>
        \A u1 \in Usages :
            u1 <= usage => calculateCostBreakdown(u1, settings).total <= cost.total

\* a tariff of non-negative rates under which the usage costs more than no usage
C5_Witness ==
    /\ Costed /\ NonNegativeRates
    /\ usage > 0
    /\ calculateCostBreakdown(0, settings).total < cost.total

RECURSIVE SumOfUsages(_)
SumOfUsages(entries) ==
    IF entries = << >> THEN 0 ELSE Head(entries).usage + SumOfUsages(Tail(entries))

\* the difference between reading i+1 and reading i
Delta(i) == readings[i + 1].reading_value - readings[i].reading_value

\* the decimal r of `digits` places is the number x / n rounded to that place
RoundsTo(r, x, n, digits) ==
    LET d == r * n * Scale - x * Pow10(digits)
    IN 2 * d <= n * Scale /\ -2 * d <= n * Scale

\* C6: n >= 2 readings give n-1 daily entries in order; entry i has the usage
\* max(0, value[i+1] - value[i]) and the date of the later reading.
C6_DailyUsageEntries ==
    (Computed /\ Len(readings) >= 2) =>
        /\ Len(stats.dailyUsage) = Len(readings) - 1
        /\ \A i \in 1..(Len(readings) - 1) :
              /\ stats.dailyUsage[i].usage = (IF Delta(i) > 0 THEN Delta(i) ELSE 0)
              /\ stats.dailyUsage[i].date = readings[i + 1].reading_date

\* three readings on different days, rising and then falling: usages [d, 0]
C6_Witness ==
    /\ Computed /\ Len(readings) = 3
    /\ Delta(1) > 0 /\ Delta(2) < 0
    /\ readings[1].reading_date < readings[2].reading_date
    /\ stats.dailyUsage[1].usage = Delta(1)
    /\ stats.dailyUsage[2].usage = 0
    /\ stats.dailyUsage[1].date = readings[2].reading_date

\* C7: totalUsage is the sum of the daily entries and avgDailyUsage is that sum
\* divided by the number of entries n-1 (both reported to 4 decimal places).
C7_TotalAndAverage ==
    (Computed /\ Len(readings) >= 2) =>
        /\ locals.totalUsage = SumOfUsages(stats.dailyUsage)
        /\ locals.avgDailyUsage * Len(stats.dailyUsage) = locals.totalUsage
        /\ RoundsTo(stats.totalUsage, SumOfUsages(stats.dailyUsage), 1, 4)
        /\ RoundsTo(stats.avgDailyUsage, SumOfUsages(stats.dailyUsage), Len(stats.dailyUsage), 4)

\* usage recorded in fewer entries than the period has days, all on one date
C7_Witness ==
    /\ Computed /\ Len(readings) = 3
    /\ readings[1].reading_date = readings[3].reading_date
    /\ SumOfUsages(stats.dailyUsage) > 0
    /\ Len(stats.dailyUsage) # stats.daysInPeriod
    /\ locals.avgDailyUsage * 2 = locals.totalUsage

\* C8: fewer than 2 readings give zero usage, zero costs, no daily entries and
\* all-zero breakdowns (waterBasic included), whatever the settings are.
C8_ZeroResult ==
    (Computed /\ Len(readings) < 2) =>
        /\ stats.totalUsage = 0
        /\ stats.avgDailyUsage = 0
        /\ stats.currentCost = 0
        /\ stats.projectedCost = 0
        /\ stats.dailyUsage = << >>
        /\ \A which \in {"current", "projected"} :
              /\ stats.costBreakdown[which].waterBasic = 0
              /\ stats.costBreakdown[which].waterUsage = 0
              /\ stats.costBreakdown[which].sewage = 0
              /\ stats.costBreakdown[which].total = 0

\* one reading under a tariff with a configured basic charge
C8_Witness ==
    /\ Computed /\ Len(readings) = 1
    /\ "water_basic_monthly_cost" \in DOMAIN settings
    /\ settings["water_basic_monthly_cost"] > 0
    /\ stats.costBreakdown.current.waterBasic = 0

\* C9: the reported currentCost and current breakdown are those of
\* calculateCostBreakdown(totalUsage, settings), to 2 decimal places.
C9_CurrentCostIsCostOfTotalUsage ==
    (Computed /\ Len(readings) >= 2) =>
        LET b == calculateCostBreakdown(SumOfUsages(stats.dailyUsage), settings)
        IN /\ RoundsTo(stats.currentCost, b.total, 1, 2)
           /\ RoundsTo(stats.costBreakdown.current.total, b.total, 1, 2)
           /\ RoundsTo(stats.costBreakdown.current.waterBasic, b.waterBasic, 1, 2)
           /\ RoundsTo(stats.costBreakdown.current.waterUsage, b.waterUsage, 1, 2)
           /\ RoundsTo(stats.costBreakdown.current.sewage, b.sewage, 1, 2)

\* usage billed, the projection being a different amount
C9_Witness ==
    /\ Computed /\ Len(readings) >= 2
    /\ SumOfUsages(stats.dailyUsage) > 0
    /\ stats.costBreakdown.current.waterUsage > 0
    /\ stats.projectedCost # stats.currentCost

\* C10 as claimed: daysInPeriod is the number of calendar days from the start
\* to the end of the period, both included; projectedUsage is avgDailyUsage
\* times daysInPeriod and projectedCost the total cost of projectedUsage.
C10_InclusiveDaysAndProjection ==
    (Computed /\ Len(readings) >= 2) =>
        /\ stats.daysInPeriod = endDate.day - startDate.day + 1
        /\ locals.projectedUsage = locals.avgDailyUsage * stats.daysInPeriod
        /\ RoundsTo(stats.projectedCost,
                    calculateCostBreakdown(locals.projectedUsage, settings).total, 1, 2)

\* ------------------------------------------------ the billing period (C11-C13)
Resolved == pc = "billingPeriod"
StartDay == billing_start_day(billing)
EndDay == billing_end_day(billing)

\* the calendar month after and before month m of year y
FollowingMonth(ym) ==
    IF ym.month = 11 THEN [year |-> ym.year + 1, month |-> 0]
    ELSE [year |-> ym.year, month |-> ym.month + 1]
PrecedingMonth(ym) ==
    IF ym.month = 0 THEN [year |-> ym.year - 1, month |-> 11]
    ELSE [year |-> ym.year, month |-> ym.month - 1]
ThisMonth == [year |-> today.year, month |-> today.month]

\* date is the calendar date (year, month, day)
IsDate(date, ym, day) ==
    /\ getFullYear(date) = ym.year
    /\ getMonth(date) = ym.month
    /\ getDate(date) = day

\* date is day `day` of the month ym, counted on into the following month
\* where the month is shorter
IsPlaced(date, ym, day) ==
    IF day <= DaysInMonth(ym.year, ym.month) THEN IsDate(date, ym, day)
    ELSE IsDate(date, FollowingMonth(ym), day - DaysInMonth(ym.year, ym.month))

\* C11: when today's day of the month is at least the start day, the period
\* starts on the start day of the current month and year, and ends on the end
\* day of the current month when the end day is not before the start day, of
\* the following calendar month (January of the next year after December)
\* when it is before it.
C11_PeriodStartedThisMonth ==
    (Resolved /\ today.day >= StartDay) =>
        /\ IsDate(startDate, ThisMonth, StartDay)
        /\ IsPlaced(endDate, IF EndDay >= StartDay THEN ThisMonth
                             ELSE FollowingMonth(ThisMonth), EndDay)

\* today in December, the period ends in January of the next year
C11_Witness ==
    /\ Resolved
    /\ today.day >= StartDay
    /\ EndDay < StartDay
    /\ today.month = 11
    /\ IsDate(endDate, [year |-> today.year + 1, month |-> 0], EndDay)

\* C12: when today's day of the month is before the start day, the period
\* starts on the start day of the previous calendar month (December of the
\* previous year before January) and ends on the end day of the current
\* month, whatever the end day.
C12_PeriodStartedLastMonth ==
    (Resolved /\ today.day < StartDay) =>
        /\ IsPlaced(startDate, PrecedingMonth(ThisMonth), StartDay)
        /\ IsPlaced(endDate, ThisMonth, EndDay)

\* today 2025-01-05, start 20, end 19: 2024-12-20 .. 2025-01-19
C12_Witness ==
    /\ Resolved
    /\ today = [year |-> 2025, month |-> 0, day |-> 5]
    /\ StartDay = 20
    /\ EndDay = 19
    /\ IsDate(startDate, [year |-> 2024, month |-> 11], 20)
    /\ IsDate(endDate, [year |-> 2025, month |-> 0], 19)

\* the month the start day and the end day are placed in
StartMonth == IF today.day >= StartDay THEN ThisMonth ELSE PrecedingMonth(ThisMonth)
EndMonth ==
    IF today.day >= StartDay /\ EndDay < StartDay THEN FollowingMonth(ThisMonth)
    ELSE ThisMonth
Excess(ym, day) == day - DaysInMonth(ym.year, ym.month)

\* C13: a start or end day beyond the length of the month it is placed in is
\* not clamped to the last day of that month: the date is the day of the
\* following month given by the excess (day 31 of a 30-day month is the 1st of
\* the next month, day 31 of a 28-day February is March 3).
C13_DayOverflowsIntoNextMonth ==
    Resolved =>
        /\ Excess(StartMonth, StartDay) > 0 =>
              IsDate(startDate, FollowingMonth(StartMonth), Excess(StartMonth, StartDay))
        /\ Excess(EndMonth, EndDay) > 0 =>
              IsDate(endDate, FollowingMonth(EndMonth), Excess(EndMonth, EndDay))

\* day 31 of February 2025 is March 3, day 31 of April is May 1
C13_Witness ==
    /\ Resolved
    /\ \/ /\ StartMonth = [year |-> 2025, month |-> 1]
          /\ StartDay = 31
          /\ IsDate(startDate, [year |-> 2025, month |-> 2], 3)
       \/ /\ EndMonth.month = 3
          /\ EndDay = 31
          /\ IsDate(endDate, [year |-> EndMonth.year, month |-> 4], 1)

\* ------------------------------------------------- absent settings (C14)
\* the defaults of database.js for blocks 1-3, rates in hundredths
DocumentedDefaults ==
    [water_block_1_limit |-> 6, water_block_1_rate |-> 2967,
     water_block_2_limit |-> 15, water_block_2_rate |-> 5732,
     water_block_3_limit |-> 25, water_block_3_rate |-> 6850,
     sewage_block_1_limit |-> 6, sewage_block_1_rate |-> 2225,
     sewage_block_2_limit |-> 15, sewage_block_2_rate |-> 4299,
     sewage_block_3_limit |-> 25, sewage_block_3_rate |-> 5138]
LimitKeys == {"water_block_1_limit", "water_block_2_limit", "water_block_3_limit",
              "water_block_4_limit", "sewage_block_1_limit", "sewage_block_2_limit",
              "sewage_block_3_limit"}

\* the settings with every amount of money in hundredths, and the documented
\* default in the place of an absent limit or rate of block 1, 2 or 3
WithDocumentedDefaults(s) ==
    [k \in (DOMAIN s) \cup (DOMAIN DocumentedDefaults) |->
        IF k \in DOMAIN s
        THEN (IF k \in LimitKeys THEN s[k] ELSE Pow10(2) * s[k])
        ELSE DocumentedDefaults[k]]

CostFields == {"waterBasic", "waterUsage", "sewage", "total"}
Block123Present == DOMAIN DocumentedDefaults \subseteq DOMAIN settings
Block123RatesPresent == (DOMAIN DocumentedDefaults) \ LimitKeys \subseteq DOMAIN settings

\* C14: where a limit or a rate of water or sewage block 1, 2 or 3 is absent,
\* the cost is the one computed with the documented default in its place
\* (limits 6/15/25, water rates 29.67/57.32/68.50, sewage rates
\* 22.25/42.99/51.38); amounts are compared in hundredths.
C14_DocumentedDefaults ==
    Costed =>
        \A f \in CostFields :
            Pow10(2) * cost[f] = calculateCostBreakdown(usage, WithDocumentedDefaults(settings))[f]

\* what does hold: the documented defaults of the limits are the ones used
C14_DocumentedLimits ==
    (Costed /\ Block123RatesPresent) =>
        \A f \in CostFields :
            Pow10(2) * cost[f] = calculateCostBreakdown(usage, WithDocumentedDefaults(settings))[f]

\* ---------------------------------------------- malformed settings (C15)
\* a stored tariff string is present and not numeric
Malformed == \E k \in DOMAIN settings : settings[k] = NaN
CostComputed == Computed /\ Len(readings) >= 2

\* C15: with a tariff setting that is present but not numeric the cost
\* computation fails with a configuration error: no statistics result is
\* returned that was computed from the malformed setting.
C15_MalformedSettingIsAnError == Malformed => ~CostComputed

\* what the code returns instead: an amount NaN for a malformed rate or basic
\* charge, and for a malformed limit a number (the block and the one after it
\* are skipped)
MalformedBasicGivesNaN ==
    (CostComputed /\ settings["water_basic_monthly_cost"] = NaN) =>
        /\ stats.currentCost = NaN
        /\ stats.costBreakdown.current.waterUsage # NaN
MalformedLimitGivesNumber ==
    (CostComputed /\ settings["water_block_1_limit"] = NaN) =>
        /\ stats.currentCost # NaN
        /\ locals.currentCostBreakdown.waterUsage =
              IF locals.totalUsage > 0
              THEN TierLoop(waterBlocks(settings), locals.totalUsage).cost
              ELSE 0
        /\ TierLoop(waterBlocks(settings), locals.totalUsage).billed[1] = 0

\* --------------------------------------------------- the server (C16-C20)
\* the rows of a user
OwnReadings(u) == {r \in dbReadings : r.user_id = u}
OwnSettings(u) == {row \in dbSettings : row.user_id = u}

\* what the users other than u could have stored instead of what they have
ForeignReadings(u) ==
    [id : 1..MaxIds, user_id : Users \ {u}, reading_value : {parseFloat(1), parseFloat(2)},
     reading_date : {EarlyDay, LateDay}, reading_time : {1}]
OtherReadings(u) == {{}, ForeignReadings(u)} \cup {{r} : r \in ForeignReadings(u)}
OtherSettings(u) ==
    {UNION {SettingsRows(v, f[v]) : v \in Users \ {u}} :
        f \in [Users \ {u} -> {NoSettings, AccountSettings,
                               "billing_start_day" :> 15 @@ "water_block_1_rate" :> 2
                                   @@ AccountSettings}]}

Sent(route) == response.route = route /\ response.status = 200

\* the response a GET of user u gets is the one it would get with the other
\* users' rows replaced by any others
ReadingsIsolated ==
    Sent("GET /api/readings")' =>
        LET u == response'.token.id
        IN  \A others \in OtherReadings(u) :
                \E range \in ReadingRanges :
                    response'.body \in Descending(
                        IF range = << >> THEN SelectReadings(OwnReadings(u) \cup others, u)
                        ELSE SelectReadingsBetween(OwnReadings(u) \cup others, u,
                                                   range[1], range[2]))
SettingsIsolated ==
    Sent("GET /api/settings")' =>
        LET u == response'.token.id
        IN  \A others \in OtherSettings(u) :
                response'.body = SettingsObject(SelectSettings(OwnSettings(u) \cup others, u))
StatisticsIsolated ==
    /\ (statsReq.step = 0 /\ statsReq'.step = 1) =>
          LET u == statsReq'.user
          IN  \A others \in OtherSettings(u) :
                  LET period == BillingPeriod(tz,
                                    BillingObject(SelectBillingSettings(OwnSettings(u) \cup others, u)),
                                    today.year, today.month, today.day)
                  IN  /\ statsReq'.startDate = period.startDate
                      /\ statsReq'.endDate = period.endDate
    /\ (statsReq.step = 1 /\ statsReq'.step = 2) =>
          LET u == statsReq.user
          IN  \A others \in OtherReadings(u) :
                  statsReq'.readings \in
                      Ascending(SelectReadingsBetween(OwnReadings(u) \cup others, u,
                                                      statsReq.startDateStr, statsReq.endDateStr))
    /\ (statsReq.step = 2 /\ statsReq'.step = 0) =>
          LET u == statsReq.user
          IN  \A others \in OtherSettings(u) :
                  response'.body =
                      calculateStatistics(statsReq.readings,
                          SettingsObject(SelectSettings(OwnSettings(u) \cup others, u)),
                          statsReq.startDate, statsReq.endDate)

\* a request of one user leaves the rows of every other user as they are
WritesIsolated ==
    \A v \in Users :
        (response' # NoResponse /\ response'.token.id # v) =>
            /\ {r \in dbReadings' : r.user_id = v} = OwnReadings(v)
            /\ {row \in dbSettings' : row.user_id = v} = OwnSettings(v)

\* C16: whatever the users have posted, deleted and put, the responses to a
\* user's GET /api/readings, GET /api/settings and GET /api/statistics depend
\* only on the rows with that user's id, and no request of another user
\* changes those rows.
C16_PerUserIsolation ==
    [][ReadingsIsolated /\ SettingsIsolated /\ StatisticsIsolated /\ WritesIsolated]_vars

\* user 1 is sent its one reading while user 2 has stored a reading too
C16_Witness ==
    /\ Sent("GET /api/readings")
    /\ response.token.id = 1
    /\ Len(response.body) = 1
    /\ OwnReadings(1) # {}
    /\ OwnReadings(2) # {}

\* the token verifies: signed with the server's secret and not expired
Verifies(token) == token.present /\ token.signed /\ ~token.expired
StoredUnchanged == UNCHANGED <<dbReadings, dbSettings, nextId, statsReq>>
Refused(status, error) == response'.status = status /\ response'.body = error /\ StoredUnchanged

\* C19: a handler of a protected route runs (reads or writes the database)
\* only for a request whose bearer token verifies; a request without a token
\* is answered 401, one with an expired token 401, one with any other invalid
\* token 403, and these three leave the stored state unchanged.
C19_ProtectedRoutesNeedAToken ==
    [][/\ response' # NoResponse =>
             LET token == response'.token
             IN  /\ response'.route \in ProtectedRoutes
                 /\ ~token.present => Refused(401, "Authentication required")
                 /\ (token.present /\ token.signed /\ token.expired) =>
                        Refused(401, "Token expired")
                 /\ (token.present /\ ~token.signed) => Refused(403, "Invalid token")
                 /\ Verifies(token) => response'.status \notin {401, 403}
       /\ (statsReq' # statsReq /\ statsReq'.step # 0) => Verifies(statsReq'.token)
       /\ ~StoredUnchanged =>
             Verifies(IF response' # NoResponse THEN response'.token ELSE statsReq'.token)
      ]_vars

\* a forged token naming user 1 is refused the deletion of a reading of user 1
C19_Witness ==
    /\ response.route = "DELETE /api/readings"
    /\ response.status = 403
    /\ response.token.id = 1
    /\ OwnReadings(1) # {}

\* C20: the response of GET /api/statistics is the one computed from the
\* owner's stored data of one state: the state of one of its three queries.
C20_StatisticsFromOneSnapshot ==
    [][(statsReq.step = 2 /\ statsReq'.step = 0) =>
          response'.body \in
              statsReq.snapshots \cup StatisticsOn(dbReadings, dbSettings, statsReq.user,
                                                   tz, today)]_vars

\* ---- password reset tokens (C17, C18)
\* the requests that changed a password with this token
ChangedWith(token) == {a \in accepted : a.token = token}

\* C17: every issued reset token changes a password at most once: of all the
\* POST /reset-password requests that carry it, two that run concurrently
\* included, at most one changes the user's password.
C17_ResetTokenIsSingleUse ==
    \A m \in mailbox : Cardinality(ChangedWith(m.token)) <= 1

\* the token was issued at most one hour before now
Fresh(token) == \E m \in mailbox : m.token = token /\ clock.now <= m.issuedAt + OneHour
\* a reset token of this user was issued at most one hour before now
FreshFor(userId) == \E m \in mailbox : m.user_id = userId /\ clock.now <= m.issuedAt + OneHour

\* POST /reset-password finds the token of this request valid
LookupPasses(slot) == resets[slot].pc = "idle" /\ resets'[slot].pc = "hashing"
\* GET /verify-reset-token answers that the token is valid
VerifyPasses ==
    /\ response = NoResponse
    /\ response'.route = "/verify-reset-token"
    /\ response'.status = 200

\* C18: a reset token issued more than one hour ago is refused: neither
\* POST /reset-password nor GET /verify-reset-token finds it valid, so it
\* changes no password.
C18_ResetTokenExpiresAfterOneHour ==
    [][/\ \A slot \in ResetSlots : LookupPasses(slot) => Fresh(resets'[slot].token)
       /\ VerifyPasses => FreshFor(response'.body.username)]_vars


\* ---- the readings of the period (C21)
\* the rows of a sequence
Rows(rs) == {rs[i] : i \in 1..Len(rs)}
\* the caller's readings dated from the day of startDate to the day of endDate
InPeriod(userId, start, end) ==
    {r \in dbReadings : /\ r.user_id = userId
                        /\ start.day <= r.reading_date
                        /\ r.reading_date <= end.day}
\* ascending by date, then by time
DateTimeOrdered(rs) ==
    \A i \in 1..(Len(rs) - 1) :
        \/ rs[i].reading_date < rs[i + 1].reading_date
        \/ rs[i].reading_date = rs[i + 1].reading_date /\ rs[i].reading_time <= rs[i + 1].reading_time
\* the second query of GET /api/statistics returns
ReadingsQueried == statsReq.step = 1 /\ statsReq'.step = 2

\* C21: the readings GET /api/statistics hands to calculateStatistics are
\* exactly the caller's stored readings dated within the resolved period,
\* start and end day included, in ascending order of date and time.
C21_ReadingsOfTheResolvedPeriod ==
    [][ReadingsQueried =>
          /\ Rows(statsReq'.readings) = InPeriod(statsReq.user, statsReq.startDate, statsReq.endDate)
          /\ Len(statsReq'.readings) = Cardinality(Rows(statsReq'.readings))
          /\ DateTimeOrdered(statsReq'.readings)]_vars


\* ---- registration (C22)
\* the documented default table
DocumentedSettings ==
    "water_basic_monthly_cost" :> Decimal(91, 79)
    @@ "water_block_1_limit" :> Decimal(6, 0) @@ "water_block_1_rate" :> Decimal(29, 67)
    @@ "water_block_2_limit" :> Decimal(15, 0) @@ "water_block_2_rate" :> Decimal(57, 32)
    @@ "water_block_3_limit" :> Decimal(25, 0) @@ "water_block_3_rate" :> Decimal(68, 50)
    @@ "water_block_4_limit" :> Decimal(35, 0) @@ "water_block_4_rate" :> Decimal(95, 12)
    @@ "water_block_5_rate" :> Decimal(133, 43)
    @@ "sewage_block_1_limit" :> Decimal(6, 0) @@ "sewage_block_1_rate" :> Decimal(22, 25)
    @@ "sewage_block_2_limit" :> Decimal(15, 0) @@ "sewage_block_2_rate" :> Decimal(42, 99)
    @@ "sewage_block_3_limit" :> Decimal(25, 0) @@ "sewage_block_3_rate" :> Decimal(51, 38)
    @@ "sewage_block_4_rate" :> Decimal(71, 34)
    @@ "billing_start_day" :> Decimal(1, 0) @@ "billing_end_day" :> Decimal(31, 0)
DocumentedKeyCount == 19

\* the settings rows of a user, and of everybody else, in a table
RowsOf(table, u) == {row \in table : row.user_id = u}
RowsOfOthers(table, u) == {row \in table : row.user_id # u}
\* POST /register answers 201
Registered ==
    /\ response = NoResponse
    /\ response'.route = "POST /register"
    /\ response'.status = 201

\* C22: when a registration answers 201, the new user owns exactly one
\* settings row for each of the 19 default keys, holding the documented default
\* value, and the settings rows of every other user are as they were.
C22_RegistrationCreatesDefaults ==
    [][Registered =>
          LET u == response'.body.user
          IN  /\ RowsOf(dbSettings', u) = SettingsRows(u, DocumentedSettings)
              /\ Cardinality(RowsOf(dbSettings', u)) = DocumentedKeyCount
              /\ RowsOf(dbSettings, u) = {}
              /\ RowsOfOthers(dbSettings', u) = RowsOfOthers(dbSettings, u)]_vars
\* a registration has answered 201 while another user holds changed settings
C22_Witness ==
    /\ response.route = "POST /register"
    /\ response.status = 201
    /\ RowsOf(dbSettings, response.body.user) # {}
    /\ RowsOfOthers(dbSettings, response.body.user)
          \notin {{}, SettingsRows(1, defaultSettings)}


\* ---- DELETE /api/readings/:id (C23)
\* the stored readings with this id that the user owns
Owned(id, u) == {r \in dbReadings : r.id = id /\ r.user_id = u}
\* DELETE /api/readings/:id answers
Deleting == response = NoResponse /\ response'.route = "DELETE /api/readings"

\* C23: DELETE /api/readings/:id removes the reading with this id when the
\* caller owns it, and only that reading; for an id that does not exist or
\* belongs to another user nothing is removed, the answer is 404 'Reading not
\* found or unauthorized', and the stored readings are unchanged.
C23_DeleteOnlyOwnReading ==
    [][/\ \A u \in Users, id \in 1..MaxIds :
             /\ DeletedRows(dbReadings, id, u) = Owned(id, u)
             /\ Cardinality(Owned(id, u)) <= 1
       /\ Deleting =>
             LET u == response'.token.id
             IN  \/ /\ response'.status = 404
                    /\ response'.body = "Reading not found or unauthorized"
                    /\ dbReadings' = dbReadings
                    /\ \E id \in 1..MaxIds : Owned(id, u) = {}
                 \/ /\ response'.status = 200
                    /\ \E r \in dbReadings : /\ r.user_id = u
                                             /\ dbReadings' = dbReadings \ {r}]_vars
\* a user has deleted an own reading while a reading of another user is stored
C23_Witness ==
    /\ response.route = "DELETE /api/readings"
    /\ response.status = 200
    /\ \E r \in dbReadings : r.user_id # response.token.id


\* ---- forgot-password does not tell whether an address is registered (C24)
\* POST /forgot-password answers the request of this slot
ForgotAnswered(slot) == forgot[slot].pc # "done" /\ forgot'[slot].pc = "done"
\* the request of this slot found an active account, which was mailed a token
Mailed(slot) == forgot[slot].pc = "done" /\ "user" \in DOMAIN forgot[slot]
\* the request of this slot found no active account
NotMailed(slot) == forgot[slot].pc = "done" /\ "user" \notin DOMAIN forgot[slot]
\* the one answer
ForgotAnswer ==
    [route |-> "/forgot-password", token |-> NoToken, status |-> 200, body |-> ForgotMessage]

\* C24: POST /forgot-password gives the same status and the same body whether
\* the address belongs to an active user, to a deactivated user or to nobody.
C24_ForgotPasswordRevealsNothing ==
    [][\A slot \in ForgotSlots : ForgotAnswered(slot) => response' = ForgotAnswer]_vars
\* one request was for the address of an active user, another for an address
\* without an active account, and both have been answered
C24_Witness ==
    /\ response = ForgotAnswer
    /\ \E mailed, other \in ForgotSlots :
          /\ Mailed(mailed)
          /\ NotMailed(other)
          /\ \E m \in mailbox : m.user_id = forgot[mailed].user

\* ---- deactivated accounts (C25)
\* the accounts a login or forgot-password request names, when deactivated
DeactivatedByUsername(username) ==
    {u \in SelectUserByUsername(accounts, username) : ~accounts[u].is_active}
DeactivatedByEmail(email) ==
    {u \in SelectUserByEmail(accounts, email) : ~accounts[u].is_active}
\* the stored tokens this reset token finds, whose account is deactivated
DeactivatedByToken(token) ==
    {row \in FindResetToken(dbTokens, token, clock.now) : ~accounts[row.user_id].is_active}
\* the handler of this slot runs its lookup
LoginStarts(slot) == logins[slot].pc = "idle" /\ logins'[slot].pc # "idle"
ForgotStarts(slot) == forgot[slot].pc = "idle" /\ forgot'[slot].pc # "idle"
ResetStarts(slot) == resets[slot].pc = "idle" /\ resets'[slot].pc # "idle"
\* the answer is 403 'Account is deactivated'
Answers403 == response'.status = 403 /\ response'.body = "Account is deactivated"

\* C25: for an account that is deactivated, a login (with whatever password)
\* is answered 403 and issues no token; forgot-password stores no reset token
\* and sends no mail; reset-password with a token that is unused and unexpired
\* is answered 403 and leaves the password hash and the token's used_at as
\* they are.
C25_DeactivatedAccountIsLockedOut ==
    [][/\ \A slot \in LoginSlots :
             LoginStarts(slot) /\ DeactivatedByUsername(logins'[slot].body.username) # {}
                => /\ Answers403
                   /\ logins'[slot].pc = "done"
                   /\ clients' = clients
       /\ \A slot \in ForgotSlots :
             ForgotStarts(slot) /\ DeactivatedByEmail(forgot'[slot].email) # {}
                => /\ forgot'[slot].pc = "done"
                   /\ dbTokens' = dbTokens
                   /\ mailbox' = mailbox
       /\ \A slot \in ResetSlots :
             ResetStarts(slot) /\ DeactivatedByToken(resets'[slot].token) # {}
                => /\ Answers403
                   /\ resets'[slot].pc = "done"
                   /\ accounts' = accounts
                   /\ dbTokens' = dbTokens]_vars
\* reset-password has answered 403 for the unused token of a deactivated
\* account, and a login of a deactivated account was refused
C25_Witness ==
    /\ response.route = "/reset-password"
    /\ response.status = 403
    /\ \E slot \in ResetSlots :
          /\ resets[slot].pc = "done"
          /\ DeactivatedByToken(resets[slot].token) # {}
    /\ \E slot \in LoginSlots :
          /\ logins[slot].pc = "done"
          /\ logins[slot].body.password = 0
          /\ DeactivatedByUsername(logins[slot].body.username) # {}


\* ---- one usable reset token per user (C26)
\* the instant a stored timestamp denotes
InstantOf(text) == text.date * HoursPerDay + text.time
\* the stored tokens of a user that are unused and have not expired
Usable(u) ==
    {row \in dbTokens : /\ row.user_id = u
                        /\ Unused(row)
                        /\ clock.now < InstantOf(row.expires_at)}

\* C26: at any time every user has at most one reset token that is unused and
\* unexpired, also when forgot-password requests for one user run concurrently.
C26_OneUsableTokenPerUser ==
    \A u \in DOMAIN accounts : Cardinality(Usable(u)) <= 1


\* ---- the resolved period and today (C27, C28)
\* the calendar day of today
TodayDay == MakeDay(today.year, today.month, today.day)

\* C27: the billing period GET /api/statistics resolves contains today, for
\* every today and every start and end day in 1..31: start <= today <= end.
C27_PeriodContainsToday ==
    Resolved => startDate.day <= TodayDay /\ TodayDay <= endDate.day

\* C28: the resolved period has start <= end for every today and every start
\* and end day in 1..31, day values that overflow their month included, so
\* the number of days in the period is at least 1.
C28_PeriodStartsBeforeItEnds ==
    Resolved => /\ startDate.day <= endDate.day
                /\ startDate.time <= endDate.time
                /\ TotalDaysInPeriod(startDate, endDate) >= 1


\* ---- total usage and the meter's span (C29)
\* last reading value - first reading value
Span == readings[Len(readings)].reading_value - readings[1].reading_value
NoFall == \A i \in 1..(Len(readings) - 1) : Delta(i) >= 0

\* C29: for n >= 2 readings totalUsage is at least the last value minus the
\* first, and equal to it exactly when no reading is lower than the one before;
\* totalUsage and every daily entry are never negative.
C29_TotalUsageAndSpan ==
    (Computed /\ Len(readings) >= 2) =>
        /\ locals.totalUsage >= Span
        /\ (locals.totalUsage = Span) <=> NoFall
        /\ locals.totalUsage >= 0
        /\ stats.totalUsage >= 0
        /\ \A i \in 1..Len(stats.dailyUsage) : stats.dailyUsage[i].usage >= 0

\* the meter goes up and then further down: the total exceeds a negative span
C29_Witness ==
    /\ Computed /\ Len(readings) = 3
    /\ Delta(1) > 0 /\ Delta(2) < 0
    /\ Span < 0
    /\ locals.totalUsage = Delta(1)


\* ---- projection and current cost (C30)
\* every reading is dated within the period
ReadingsInPeriod ==
    \A i \in 1..Len(readings) :
        startDate.day <= readings[i].reading_date /\ readings[i].reading_date <= endDate.day

\* C30: for n >= 2 readings in the period and non-negative rates the projected
\* usage is at least the total usage and the projected cost total is at least
\* the current cost total, however many readings a day has.
C30_ProjectionNotBelowCurrent ==
    (Computed /\ Len(readings) >= 2 /\ ReadingsInPeriod /\ NonNegativeRates) =>
        /\ locals.projectedUsage >= locals.totalUsage
        /\ locals.projectedCostBreakdown.total >= locals.currentCostBreakdown.total
        /\ stats.projectedCost >= stats.currentCost

====
